---- MODULE Spec2Model ----
(***************************************************************************)
(* SongDecoder: the tag-to-vibe classification engine and the tag-based    *)
(* feature estimator.                                                      *)
(*                                                                         *)
(* Strings are TLA+ strings, read character by character with Len, SubSeq  *)
(* and \o.  Numbers that the source writes with decimals are kept exact:   *)
(* vibe scores in halves, descriptor scores in two-hundredths, feature     *)
(* values as reduced fractions of hundredths.  IEEE-754 rounding of the    *)
(* JavaScript doubles is not modelled.                                     *)
(***************************************************************************)
EXTENDS Integers, Sequences, FiniteSets, TLC

VARIABLES
    NORMALIZED_SIGNALS, \* part_003:847, the module-level map built at load
    pc,                 \* position of the running call or startup block
    sourceTags,         \* the raw tag list of the current call
    features,           \* result of estimateFeaturesFromTags, or None
    vibeProfile,        \* result of deriveVibeProfile, or None
    nodeEnv,            \* process.env.NODE_ENV
    idx,                \* loop index of the running startup loop
    invalid,            \* assertDescriptorsValid: the invalid descriptors found
    testResults,        \* runVibeTests: [passed, failed, failures]
    heartOk,            \* result of testHeartOnSleeveFitsBalladTags, "unset" before it ran
    thrown,             \* message of the error the startup block caught, "" if none
    rawTag,             \* normalizeTag: the argument of the first call
    normalized,         \* normalizeTag(rawTag) once the first call has returned
    renormalized,       \* normalizeTag(normalized) once the second call has returned
    calls,              \* how many of the two calls have been made
    seedFeatures,       \* the estimated features of the seed track
    candidateFeatures,  \* the estimated features of one candidate track
    totalDistance,      \* calculateDistance(...).totalDistance, or None
    dimensionDiffs,     \* the record handed to generateRecommendationReason
    reason,             \* result of generateRecommendationReason, "" before the call
    distancePc,         \* position of the distance computation
    lastfm,             \* what Last.fm answers: similar tracks, similar artists, failures
    seedTrackName,      \* the name of the seed track
    similarTracks,      \* result of getNormalizedSimilarTracks
    similarArtists,     \* result of getSimilarArtists
    topTracks,          \* result of getArtistTopTracks for the artist in hand
    cursor,             \* index of the outer loop: similar track, or similar artist
    trackCursor,        \* index of the inner loop over topTracks
    candidateTracks,    \* tracksWithFeatures / candidateTracks
    seenTrackIds,       \* the Set of the fallback
    recommendations,    \* the list returned, or None
    rankPc,             \* position in fetchAndRerankRecommendations
    db,                 \* the exported database handle: "client", or "null" when not configured
    trackAnalysisCache, \* the rows of the trackAnalysisCache table
    now,                \* the clock, in days
    request,            \* the request the route handler was last given
    lookups,            \* the Last.fm calls made while serving that request, with the answers
    logged,             \* what the handler wrote with console.warn and console.error
    response,           \* the response returned for that request
    vibeInput,          \* the features deriveVibeTags is called with
    vibeTags,           \* result of deriveVibeTags, <<>> before the call
    trackTags,          \* the tags Last.fm gave for the track being analysed
    trackFeatures,      \* estimateFeaturesFromTags(trackTags) inside analyzeTrackByName
    fingerprint,        \* result of deriveFingerprint, or None
    explanationInput,   \* the argument of generateExplanation
    explanation,        \* result of generateExplanation, or None
    explanationAgain,   \* result of a second call with the same argument, or None
    explainPc           \* position of the analysis that ends in generateExplanation

tagEngineVars == <<NORMALIZED_SIGNALS, pc, sourceTags, features, vibeProfile, nodeEnv, idx,
                   invalid, testResults, heartOk, thrown>>

normalizerVars == <<rawTag, normalized, renormalized, calls>>

distanceVars == <<seedFeatures, candidateFeatures, totalDistance, dimensionDiffs, reason,
                  distancePc>>

rankingVars == <<lastfm, seedTrackName, similarTracks, similarArtists, topTracks, cursor,
                 trackCursor, candidateTracks, seenTrackIds, recommendations, rankPc>>

requestVars == <<db, trackAnalysisCache, now, request, lookups, logged, response>>

vibeTagVars == <<vibeInput, vibeTags>>

explanationVars == <<trackTags, trackFeatures, fingerprint, explanationInput, explanation,
                     explanationAgain, explainPc>>

vars == <<tagEngineVars, normalizerVars, distanceVars, rankingVars, requestVars, vibeTagVars,
          explanationVars>>

\* The variables a specification of one component leaves alone.
outsideTagEngine == <<normalizerVars, distanceVars, rankingVars, requestVars, vibeTagVars,
                      explanationVars>>

outsideNormalizer == <<tagEngineVars, distanceVars, rankingVars, requestVars, vibeTagVars,
                       explanationVars>>

outsideDistance == <<tagEngineVars, normalizerVars, rankingVars, requestVars, vibeTagVars,
                     explanationVars>>

\* The ranking reads seedFeatures, which it is called with.
outsideRanking == <<tagEngineVars, normalizerVars, seedFeatures, candidateFeatures,
                    totalDistance, dimensionDiffs, reason, distancePc, requestVars,
                    vibeTagVars, explanationVars>>

outsideRequest == <<tagEngineVars, normalizerVars, distanceVars, rankingVars, vibeTagVars,
                    explanationVars>>

outsideVibeTags == <<tagEngineVars, normalizerVars, distanceVars, rankingVars, requestVars,
                     explanationVars>>

outsideExplanation == <<tagEngineVars, normalizerVars, distanceVars, rankingVars, requestVars,
                        vibeTagVars>>

\* The value of a result variable before its call has run.
None == [none |-> TRUE]

\* The longest raw tag list a call is given.
MaxTags == 2


\* The normalizer's variables while another component is under study.
NormalizerIdle ==
    /\ rawTag = ""
    /\ normalized = ""
    /\ renormalized = ""
    /\ calls = 0

\* The distance computation's variables while another component is under study.
DistanceIdle ==
    /\ seedFeatures = None
    /\ candidateFeatures = None
    /\ totalDistance = None
    /\ dimensionDiffs = <<>>
    /\ reason = ""
    /\ distancePc = "idle"

\* The variables of fetchAndRerankRecommendations while another component is under study.
RankingIdle ==
    /\ lastfm = None
    /\ seedTrackName = ""
    /\ similarTracks = <<>>
    /\ similarArtists = <<>>
    /\ topTracks = <<>>
    /\ cursor = 0
    /\ trackCursor = 0
    /\ candidateTracks = <<>>
    /\ seenTrackIds = {}
    /\ recommendations = None
    /\ rankPc = "idle"

\* The route handlers' variables while another component is under study.
RequestIdle ==
    /\ db = "null"
    /\ trackAnalysisCache = {}
    /\ now = 0
    /\ request = None
    /\ lookups = <<>>
    /\ logged = <<>>
    /\ response = None

\* The variables of deriveVibeTags while another component is under study.
VibeTagsIdle ==
    /\ vibeInput = None
    /\ vibeTags = <<>>

\* The variables of the explanation generator while another component is under study.
ExplanationIdle ==
    /\ trackTags = <<>>
    /\ trackFeatures = None
    /\ fingerprint = None
    /\ explanationInput = None
    /\ explanation = None
    /\ explanationAgain = None
    /\ explainPc = "idle"

IdleOutsideTagEngine ==
    NormalizerIdle /\ DistanceIdle /\ RankingIdle /\ RequestIdle /\ VibeTagsIdle
    /\ ExplanationIdle

\* The tag engine's variables while another component is under study.
TagEngineIdle ==
    /\ NORMALIZED_SIGNALS = <<>>
    /\ pc = "idle"
    /\ sourceTags = <<>>
    /\ features = None
    /\ vibeProfile = None
    /\ nodeEnv = "production"
    /\ idx = 0
    /\ invalid = <<>>
    /\ testResults = [passed |-> 0, failed |-> 0, failures |-> <<>>]
    /\ heartOk = "unset"
    /\ thrown = ""

IdleOutsideNormalizer ==
    TagEngineIdle /\ DistanceIdle /\ RankingIdle /\ RequestIdle /\ VibeTagsIdle
    /\ ExplanationIdle

IdleOutsideDistance ==
    TagEngineIdle /\ NormalizerIdle /\ RankingIdle /\ RequestIdle /\ VibeTagsIdle
    /\ ExplanationIdle

IdleOutsideRanking ==
    /\ TagEngineIdle
    /\ NormalizerIdle
    /\ candidateFeatures = None
    /\ totalDistance = None
    /\ dimensionDiffs = <<>>
    /\ reason = ""
    /\ distancePc = "idle"
    /\ RequestIdle
    /\ VibeTagsIdle
    /\ ExplanationIdle

IdleOutsideRequest ==
    TagEngineIdle /\ NormalizerIdle /\ DistanceIdle /\ RankingIdle /\ VibeTagsIdle
    /\ ExplanationIdle

IdleOutsideVibeTags ==
    TagEngineIdle /\ NormalizerIdle /\ DistanceIdle /\ RankingIdle /\ RequestIdle
    /\ ExplanationIdle

IdleOutsideExplanation ==
    TagEngineIdle /\ NormalizerIdle /\ DistanceIdle /\ RankingIdle /\ RequestIdle
    /\ VibeTagsIdle

(***************************************************************************)
(* Strings                                                                 *)
(***************************************************************************)

CharsOf(s) == {SubSeq(s, i, i) : i \in 1..Len(s)}

\* The position of character c in string s, 0 when absent.
IndexOfChar(s, c) ==
    IF \E i \in 1..Len(s) : SubSeq(s, i, i) = c
    THEN CHOOSE i \in 1..Len(s) :
            SubSeq(s, i, i) = c /\ \A j \in 1..(i - 1) : SubSeq(s, j, j) # c
    ELSE 0

\* String.prototype.includes.
Includes(s, p) ==
    \E i \in 1..(Len(s) - Len(p) + 1) : SubSeq(s, i, i + Len(p) - 1) = p

UpperCaseLetters == "ABCDEFGHIJKLMNOPQRSTUVWXYZÀÁÂÃÄÇÈÉÊËÍÑÓÔÖÚÜ"
LowerCaseLetters == "abcdefghijklmnopqrstuvwxyzàáâãäçèéêëíñóôöúü"

\* String.prototype.toLowerCase, on the letters above; other characters are unchanged.
LowerCaseOf ==
    [c \in CharsOf(UpperCaseLetters) |->
        SubSeq(LowerCaseLetters, IndexOfChar(UpperCaseLetters, c),
               IndexOfChar(UpperCaseLetters, c))]

LowerChar(c) == IF c \in DOMAIN LowerCaseOf THEN LowerCaseOf[c] ELSE c

RECURSIVE toLowerCase(_)
toLowerCase(s) ==
    IF s = "" THEN "" ELSE LowerChar(SubSeq(s, 1, 1)) \o toLowerCase(SubSeq(s, 2, Len(s)))

\* Characters matched by the regular expression class \s (those read here).
WhiteSpace == {" ", "\t", "\n", "\r"}

\* String.prototype.trim.
RECURSIVE trimStart(_)
trimStart(s) ==
    IF s # "" /\ SubSeq(s, 1, 1) \in WhiteSpace THEN trimStart(SubSeq(s, 2, Len(s))) ELSE s

RECURSIVE trimEnd(_)
trimEnd(s) ==
    IF s # "" /\ SubSeq(s, Len(s), Len(s)) \in WhiteSpace
    THEN trimEnd(SubSeq(s, 1, Len(s) - 1)) ELSE s

trim(s) == trimEnd(trimStart(s))

\* Characters matched by the regular expression class \w.
WordChars == CharsOf("abcdefghijklmnopqrstuvwxyzABCDEFGHIJKLMNOPQRSTUVWXYZ0123456789_")

\* n.normalize('NFD').replace(/[\u0300-\u036f]/g, ''): canonical decomposition splits
\* a precomposed letter into its base letter and combining marks, and the replace
\* drops the marks.  The strings of this module hold Latin-1 characters only, so
\* the two steps are read together: each precomposed letter becomes its base.
Precomposed == "àáâãäçèéêëíñóôöúü"
DecomposedBase == "aaaaaceeeeinooouu"

BaseLetterOf ==
    [c \in CharsOf(Precomposed) |->
        SubSeq(DecomposedBase, IndexOfChar(Precomposed, c), IndexOfChar(Precomposed, c))]

StripChar(c) == IF c \in DOMAIN BaseLetterOf THEN BaseLetterOf[c] ELSE c

RECURSIVE stripDiacritics(_)
stripDiacritics(s) ==
    IF s = "" THEN "" ELSE StripChar(SubSeq(s, 1, 1)) \o stripDiacritics(SubSeq(s, 2, Len(s)))

\* replace(/[^\w\s&]/g, ' ')
KeptChars == WordChars \cup WhiteSpace \cup {"&"}

RECURSIVE replaceNonWord(_)
replaceNonWord(s) ==
    IF s = "" THEN ""
    ELSE (IF SubSeq(s, 1, 1) \in KeptChars
          THEN SubSeq(s, 1, 1) ELSE " ")
            \o replaceNonWord(SubSeq(s, 2, Len(s)))

\* replace(/\s+/g, ' '): every maximal run of whitespace becomes one space.
RECURSIVE collapseWhitespace(_)
collapseWhitespace(s) ==
    IF s = "" THEN ""
    ELSE IF SubSeq(s, 1, 1) \in WhiteSpace
         THEN " " \o collapseWhitespace(trimStart(s))
         ELSE SubSeq(s, 1, 1) \o collapseWhitespace(SubSeq(s, 2, Len(s)))

(***************************************************************************)
(* Arrays                                                                  *)
(***************************************************************************)

SeqToSet(xs) == {xs[i] : i \in DOMAIN xs}

\* Array.prototype.map gives an array: the sequence f, element by element.
ArrayOf(f) == SubSeq(f, 1, Len(f))

\* part_003:27-76. The canonical vibe-genre labels, in declaration order.
VIBE_GENRES == <<"Star Fishing", "Velvet Haze", "Cloud Nine", "Golden Hour", "Festival Buzz",
    "Sunrise Drive", "Crowd Control", "Heat Check", "Low-Light Groovy", "Speakeasy",
    "Tumblr Core", "White Noise", "Soul Kitchen", "Honey Glow", "Saddle Up", "Fireplace Folk",
    "Vintage Warmth", "Sunday Morning", "Bar for Bar", "Soul Train", "Afterparty",
    "Mind Palace", "Color Theory", "Rhythm Therapy", "Club Catalyst", "Indie Wanderlust",
    "Garage Grunge", "Indie Sleaze", "Lo-Fi Nostalgia", "Feel The Bass", "Dad Rock",
    "Full Throttle", "Mosh Pit Magic", "Windows Down", "Hammock Mode", "Under A Palm Tree",
    "Rainy Day Replay", "Zen Garden", "Do Not Disturb", "Scenic Route", "Heart on Sleeve",
    "Unclassified (Vibe TBD)", "Pulso", "Palmwine Nights", "Side B", "Pixelated Pop",
    "Electric Daydream", "In Sync">>

\* part_003:139-187. The global descriptor vocabulary.
DESCRIPTORS == <<"euphoric", "melancholic", "bittersweet", "hopeful", "nostalgic", "yearning",
    "cathartic", "tender", "defiant", "wistful", "triumphant", "anxious", "peaceful",
    "rebellious", "romantic", "introspective", "playful", "somber", "uplifting", "haunting",
    "late-night", "early-morning", "golden-hour", "midnight", "sunset", "rainy-day",
    "road-trip", "party-starter", "wind-down", "workout", "study-session", "coffee-shop",
    "bedroom", "festival", "commute", "shimmering", "gritty", "lush", "sparse", "layered",
    "crystalline", "fuzzy", "crisp", "warm", "cold", "raw", "polished", "lo-fi", "hi-fi",
    "organic", "synthetic", "acoustic", "electric", "hazy", "sharp", "smooth", "driving",
    "floating", "pulsing", "swaying", "stomping", "gliding", "crashing", "building",
    "releasing", "simmering", "explosive", "gentle", "relentless", "hypnotic", "kinetic",
    "dreamy", "ethereal", "cinematic", "intimate", "anthemic", "moody", "sunny", "dark",
    "bright", "smoky", "spacious", "claustrophobic", "expansive", "minimal", "maximal",
    "indie-coded", "alt-leaning", "pop-adjacent", "underground", "mainstream-friendly",
    "cult-classic", "timeless", "futuristic", "retro", "experimental", "accessible", "niche",
    "crossover", "genre-fluid", "brain-scratch", "earworm", "repeatable", "grower",
    "instant-hit", "deep-cut", "crowd-pleaser", "hidden-gem", "sleeper", "anthem",
    "bass-heavy", "treble-bright", "mid-focused", "sub-rattling", "vocal-forward",
    "instrumental-led", "beat-driven", "melody-first", "texture-rich", "groove-locked",
    "dynamic", "compressed", "breathing", "city-nights", "countryside", "coastal", "urban",
    "suburban", "global", "local", "DIY", "authentic", "curated", "effortless", "intentional",
    "spontaneous", "crafted", "storytelling">>

\* part_003:197-288. Reusable tag groups spread into the signal definitions.
T == [
    TRAP |-> <<"trap", "drill", "dark trap", "hard trap", "grime">>,
    RAP |-> <<"rap", "hip hop">>,
    RAP_ALT |-> <<"alternative hip hop", "experimental hip hop", "art rap", "experimental rap", "abstract hip hop">>,
    RAP_MELODIC |-> <<"melodic rap", "melodic hip hop">>,
    RNB |-> <<"r&b", "alternative r&b", "contemporary r&b">>,
    SOUL |-> <<"neo soul", "soul", "classic soul">>,
    SLOW_RNB |-> <<"slow jam", "80s r&b", "quiet storm">>,
    FUNK_CLASSIC |-> <<"motown", "disco", "classic funk", "boogie">>,
    FUNK_MODERN |-> <<"nu disco", "future funk", "funky", "house funk">>,
    HOUSE |-> <<"house", "tech house", "deep house", "minimal house">>,
    TECHNO |-> <<"techno", "trance", "progressive house", "uplifting trance">>,
    BASS |-> <<"dubstep", "riddim", "brostep", "drum and bass", "bass music">>,
    EDM |-> <<"edm", "big room", "main stage", "electro house", "mainstage">>,
    SYNTH |-> <<"synth pop", "electropop", "indie electronic", "chillsynth", "future pop">>,
    ROCK_CLASSIC |-> <<"classic rock", "70s rock", "80s rock", "arena rock", "southern rock">>,
    ROCK_ALT |-> <<"alternative rock", "grunge", "post grunge", "garage rock", "noise pop">>,
    METAL |-> <<"hard rock", "heavy metal", "thrash", "speed metal", "death metal">>,
    METAL_CORE |-> <<"metalcore", "hardcore punk", "beatdown", "deathcore">>,
    INDIE |-> <<"indie rock", "indie pop">>,
    INDIE_SLEAZE |-> <<"indie sleaze", "electroclash", "bloghouse", "new rave", "dance punk">>,
    EMO |-> <<"emo", "midwest emo", "screamo">>,
    EMO_HEAVY |-> <<"alternative metal", "nu metal", "post hardcore", "shoegaze metal", "noise rock">>,
    POP_PUNK |-> <<"pop punk", "pop rock", "emo pop", "warped tour">>,
    DREAM |-> <<"dream pop", "shoegaze", "slowcore", "ethereal pop">>,
    AMBIENT |-> <<"space ambient", "soundscape", "drone", "dark ambient">>,
    COSMIC |-> <<"cosmic", "space", "astral", "celestial">>,
    LOFI |-> <<"lo fi", "chillwave", "bedroom pop", "lofi beats">>,
    FOLK |-> <<"indie folk", "folk", "chamber folk">>,
    COUNTRY_CLASSIC |-> <<"classic country", "outlaw country", "bluegrass", "honky tonk", "country rock">>,
    COUNTRY_MOD |-> <<"modern country", "country pop", "contemporary country">>,
    AMERICANA |-> <<"americana", "roots", "traditional folk", "old time", "folk blues">>,
    JAZZ |-> <<"jazz", "bebop", "swing", "jazz fusion", "bossa nova", "cool jazz">>,
    LATIN_URBAN |-> <<"reggaeton", "latin trap", "dembow", "perreo", "latin urban", "urbano">>,
    LATIN_TRAD |-> <<"salsa", "bachata", "cumbia", "merengue", "banda", "regional mexican", "corrido", "norteno", "vallenato">>,
    AFRO |-> <<"afrobeats", "afropop", "afrofusion", "afroswing">>,
    AFRO_DANCE |-> <<"amapiano", "highlife", "afro house">>,
    REGGAE |-> <<"reggae", "dub", "ska", "dancehall", "roots reggae">>,
    KPOP |-> <<"k pop", "korean pop", "korean">>,
    JPOP |-> <<"j pop", "japanese pop", "city pop">>,
    HYPERPOP |-> <<"hyperpop", "pc music", "glitch pop", "bubblegum bass", "nightcore", "digicore">>,
    GLITCH |-> <<"glitch", "breakcore", "idm", "wonky", "deconstructed club">>,
    BALLAD |-> <<"ballad", "power ballad", "big vocal", "diva", "belting">>,
    HAPPY |-> <<"happy", "feel good", "joyful", "upbeat">>,
    SAD |-> <<"sad", "melancholic", "heartbreak">>,
    CHILL |-> <<"chill", "relaxing", "mellow", "calm", "peaceful">>,
    AGGRESSIVE |-> <<"aggressive", "hard", "intense">>,
    MORNING |-> <<"early morning", "morning", "dawn", "sunrise">>,
    NIGHT |-> <<"late night", "midnight", "night">>,
    SUMMER |-> <<"summer", "beach", "coastal", "sunny", "vacation">>,
    STUDY |-> <<"study", "focus", "meditation", "concentration">>,
    CINEMATIC |-> <<"cinematic", "soundtrack", "score", "immersive", "headphones">>,
    LIVE |-> <<"live", "concert", "bootleg">>,
    FESTIVAL |-> <<"festival", "arena", "stadium">>]

\* part_003:315-716. One signal per vibe, in the order of the object literal
\* (the order Object.entries yields). An absent optional tier is the empty list,
\* as `signal.broad ?? []` reads it.
VIBE_SIGNALS == <<
    [vibe |-> "Star Fishing",
     core |-> T.COSMIC \o T.AMBIENT \o <<"space rock", "post rock">>,
     broad |-> <<"ambient", "atmospheric", "ethereal">>,
     boost |-> <<"transcendental", "expansive", "psychedelic">>,
     anti |-> T.STUDY \o <<"chill", "relaxing">>,
     descriptors |-> <<"ethereal", "expansive", "floating", "spacious", "shimmering", "cinematic", "hypnotic">>],
    [vibe |-> "Velvet Haze",
     core |-> T.DREAM \o <<"slowdive", "cocteau twins">>,
     broad |-> <<"indie", "dreamy">>,
     boost |-> <<"hazy", "reverb", "lush">>,
     anti |-> <<"metal", "aggressive", "trap", "drill">>,
     descriptors |-> <<"dreamy", "hazy", "shimmering", "floating", "lush", "introspective">>],
    [vibe |-> "Mind Palace",
     core |-> <<"art pop", "chamber pop", "indietronica", "art rock">>,
     broad |-> <<"introspective", "experimental">>,
     boost |-> <<"cerebral", "minimal", "clean">>,
     anti |-> <<"party", "banger", "anthem", "mosh">>,
     descriptors |-> <<"introspective", "spacious", "crafted", "cinematic", "layered", "crystalline">>],
    [vibe |-> "Cloud Nine",
     core |-> T.HAPPY \o <<"bubblegum pop">>,
     broad |-> <<"pop", "uplifting">>,
     boost |-> <<"bright", "sunny", "dance">>,
     anti |-> <<"dark", "sad", "melancholic", "aggressive">>,
     descriptors |-> <<"uplifting", "bright", "euphoric", "sunny", "playful", "instant-hit">>],
    [vibe |-> "Golden Hour",
     core |-> <<"golden hour", "sunset", "cinematic pop">>,
     broad |-> <<"warm", "nostalgic", "cinematic">>,
     boost |-> <<"romantic", "dreamy", "bittersweet">>,
     anti |-> <<"aggressive", "hard", "dark", "trap">>,
     descriptors |-> <<"golden-hour", "nostalgic", "cinematic", "warm", "bittersweet", "romantic">>],
    [vibe |-> "Sunday Morning",
     core |-> <<"sunday morning", "coffee shop", "acoustic chill">>,
     broad |-> <<"peaceful", "gentle">> \o T.MORNING,
     boost |-> <<"acoustic", "warm", "light">>,
     anti |-> <<"aggressive", "loud", "metal", "trap", "party">>,
     descriptors |-> <<"peaceful", "early-morning", "coffee-shop", "gentle", "warm", "hopeful">>],
    [vibe |-> "Festival Buzz",
     core |-> T.FESTIVAL \o <<"big chorus">> \o T.EDM,
     broad |-> <<"anthem", "edm">>,
     boost |-> T.LIVE \o <<"crowd", "drop">>,
     anti |-> <<"acoustic", "mellow", "lo fi", "folk">>,
     descriptors |-> <<"anthemic", "crowd-pleaser", "explosive", "building", "festival", "euphoric">>],
    [vibe |-> "Crowd Control",
     core |-> T.HOUSE,
     broad |-> <<"electronic", "club">>,
     boost |-> <<"groove", "pulsing", "4 on the floor">>,
     anti |-> <<"rock", "metal", "acoustic", "folk">>,
     descriptors |-> <<"groove-locked", "pulsing", "kinetic", "late-night", "beat-driven", "hypnotic">>],
    [vibe |-> "Club Catalyst",
     core |-> <<"banger", "throwback", "2000s party", "electro house">>,
     broad |-> <<"edm", "dance", "party">>,
     boost |-> <<"anthem", "crowd", "hype", "sing along", "main stage">>,
     anti |-> <<"chill", "acoustic", "folk", "study">>,
     descriptors |-> <<"crowd-pleaser", "instant-hit", "explosive", "anthem", "party-starter", "earworm">>],
    [vibe |-> "Feel The Bass",
     core |-> T.BASS,
     broad |-> <<"bass", "electronic">>,
     boost |-> <<"heavy", "sub", "wobble", "filthy">>,
     anti |-> <<"acoustic", "folk", "jazz", "chill">>,
     descriptors |-> <<"bass-heavy", "sub-rattling", "explosive", "kinetic", "gritty", "relentless">>],
    [vibe |-> "Rhythm Therapy",
     core |-> T.FUNK_MODERN \o <<"dance pop">>,
     broad |-> <<"dance", "funk", "electronic">>,
     boost |-> <<"groove", "joyful", "movement">>,
     anti |-> <<"sad", "dark", "aggressive", "metal">>,
     descriptors |-> <<"groove-locked", "kinetic", "pulsing", "uplifting", "dynamic", "party-starter">>],
    [vibe |-> "Heat Check",
     core |-> T.TRAP,
     broad |-> T.AGGRESSIVE,
     boost |-> <<"bass", "808", "dark">>,
     anti |-> <<"melodic", "chill", "mellow", "acoustic">>,
     descriptors |-> <<"bass-heavy", "dark", "sharp", "relentless", "explosive", "sub-rattling">>],
    [vibe |-> "Bar for Bar",
     core |-> <<"party rap", "hype", "bounce", "crunk", "club rap">>,
     broad |-> T.RAP,
     boost |-> <<"party", "energy", "bass", "car">>,
     anti |-> <<"chill", "mellow", "acoustic", "sad">>,
     descriptors |-> <<"beat-driven", "kinetic", "party-starter", "explosive", "bass-heavy", "crowd-pleaser">>],
    [vibe |-> "Afterparty",
     core |-> T.RAP_MELODIC \o <<"alternative r&b", "moody r&b">>,
     broad |-> <<"r&b", "chill">>,
     boost |-> T.NIGHT \o <<"moody", "3am">>,
     anti |-> T.MORNING \o <<"happy", "upbeat">> \o T.AGGRESSIVE,
     descriptors |-> <<"late-night", "moody", "intimate", "romantic", "hazy", "smooth">>],
    [vibe |-> "Color Theory",
     core |-> T.RAP_ALT,
     broad |-> <<"hip hop">>,
     boost |-> <<"experimental", "creative", "unconventional">>,
     anti |-> <<"mainstream", "country", "folk">>,
     descriptors |-> <<"experimental", "dynamic", "playful", "crossover", "genre-fluid", "futuristic">>],
    [vibe |-> "Soul Kitchen",
     core |-> T.SOUL \o <<"neo soul">>,
     broad |-> <<"r&b", "warm">>,
     boost |-> <<"vocal", "tender", "intimate", "gospel">>,
     anti |-> <<"trap", "drill", "electronic", "metal">>,
     descriptors |-> <<"warm", "tender", "vocal-forward", "intimate", "organic", "simmering">>],
    [vibe |-> "Low-Light Groovy",
     core |-> T.SLOW_RNB \o <<"quiet storm">>,
     broad |-> <<"funk", "groove", "r&b">>,
     boost |-> T.NIGHT \o <<"city", "bassline">>,
     anti |-> T.MORNING \o <<"acoustic", "rock", "metal">>,
     descriptors |-> <<"groove-locked", "warm", "swaying", "late-night", "lush", "moody">>],
    [vibe |-> "Soul Train",
     core |-> T.FUNK_CLASSIC \o <<"classic soul">>,
     broad |-> <<"funk", "retro", "70s">>,
     boost |-> <<"dance", "groove", "party">>,
     anti |-> <<"metal", "punk", "sad", "melancholic">>,
     descriptors |-> <<"groove-locked", "retro", "party-starter", "warm", "uplifting", "timeless">>],
    [vibe |-> "Speakeasy",
     core |-> T.JAZZ \o <<"lounge">>,
     broad |-> <<"smooth jazz">>,
     boost |-> <<"smoky", "intimate", "cocktail">>,
     anti |-> <<"electronic", "metal", "punk", "trap">>,
     descriptors |-> <<"smoky", "intimate", "organic", "instrumental-led", "timeless", "warm">>],
    [vibe |-> "Tumblr Core",
     core |-> T.EMO \o <<"emo pop", "sad indie">>,
     broad |-> <<"sad", "indie">>,
     boost |-> <<"emotional", "bedroom", "vulnerable">>,
     anti |-> <<"happy", "upbeat", "country", "jazz">>,
     descriptors |-> <<"cathartic", "yearning", "bittersweet", "raw", "introspective", "moody">>],
    [vibe |-> "White Noise",
     core |-> T.EMO_HEAVY \o <<"grungegaze">>,
     broad |-> <<"heavy", "distorted">>,
     boost |-> <<"dark", "atmospheric", "wall of sound">>,
     anti |-> <<"pop", "happy", "acoustic", "jazz">>,
     descriptors |-> <<"haunting", "dark", "gritty", "layered", "relentless", "claustrophobic">>],
    [vibe |-> "Indie Wanderlust",
     core |-> T.INDIE \o <<"indie anthem">>,
     broad |-> <<"indie", "alternative">>,
     boost |-> <<"road trip", "open road", "carefree">>,
     anti |-> <<"metal", "trap", "electronic", "edm">>,
     descriptors |-> <<"indie-coded", "driving", "uplifting", "crafted", "road-trip", "effortless">>],
    [vibe |-> "Garage Grunge",
     core |-> T.ROCK_ALT,
     broad |-> <<"punk", "alternative">>,
     boost |-> <<"raw", "distorted", "loud", "2000s">>,
     anti |-> <<"chill", "r&b", "jazz", "electronic">>,
     descriptors |-> <<"raw", "gritty", "rebellious", "kinetic", "defiant", "driving">>],
    [vibe |-> "Indie Sleaze",
     core |-> T.INDIE_SLEAZE,
     broad |-> <<"indie", "party">>,
     boost |-> <<"messy", "chaotic", "ironic", "2000s">>,
     anti |-> <<"folk", "country", "acoustic", "chill">>,
     descriptors |-> <<"retro", "maximal", "party-starter", "gritty", "dynamic", "rebellious">>],
    [vibe |-> "Lo-Fi Nostalgia",
     core |-> T.LOFI,
     broad |-> <<"indie", "chill">>,
     boost |-> <<"nostalgic", "hazy", "tape", "warm">>,
     anti |-> <<"metal", "loud", "aggressive", "hard">>,
     descriptors |-> <<"lo-fi", "nostalgic", "hazy", "warm", "bedroom", "intimate">>],
    [vibe |-> "Fireplace Folk",
     core |-> T.FOLK,
     broad |-> <<"acoustic", "singer songwriter">>,
     boost |-> <<"cozy", "intimate", "campfire", "warm">>,
     anti |-> <<"electronic", "metal", "punk", "trap">>,
     descriptors |-> <<"acoustic", "warm", "intimate", "organic", "peaceful", "gentle">>],
    [vibe |-> "Honey Glow",
     core |-> T.COUNTRY_MOD,
     broad |-> <<"country">>,
     boost |-> <<"sweet", "sunny", "warm">>,
     anti |-> <<"outlaw", "dark", "hard", "metal">>,
     descriptors |-> <<"warm", "sunny", "bright", "acoustic", "gentle", "earworm">>],
    [vibe |-> "Saddle Up",
     core |-> T.COUNTRY_CLASSIC,
     broad |-> <<"country">>,
     boost |-> <<"road trip", "driving", "sing along">>,
     anti |-> <<"pop", "electronic", "edm">>,
     descriptors |-> <<"countryside", "timeless", "authentic", "road-trip", "driving", "storytelling">>],
    [vibe |-> "Vintage Warmth",
     core |-> T.AMERICANA \o <<"delta blues", "chicago blues", "blues">>,
     broad |-> <<"classic", "retro", "traditional">>,
     boost |-> <<"analog", "vinyl", "timeless">>,
     anti |-> <<"electronic", "modern", "edm", "trap">>,
     descriptors |-> <<"timeless", "retro", "authentic", "warm", "nostalgic", "raw">>],
    [vibe |-> "Scenic Route",
     core |-> <<"road trip", "back roads", "alt country", "folk rock">>,
     broad |-> <<"americana", "country", "folk", "acoustic">>,
     boost |-> <<"countryside", "rural", "open road", "wandering">>,
     anti |-> <<"club", "electronic", "trap", "urban">>,
     descriptors |-> <<"road-trip", "countryside", "expansive", "authentic", "wistful", "driving">>],
    [vibe |-> "Sunrise Drive",
     core |-> T.MORNING \o <<"commute">>,
     broad |-> <<"driving", "indie">>,
     boost |-> <<"peaceful", "hopeful", "gentle", "moving">>,
     anti |-> <<"dark", "aggressive", "night", "late night">>,
     descriptors |-> <<"early-morning", "commute", "peaceful", "driving", "hopeful", "gentle">>],
    [vibe |-> "Windows Down",
     core |-> T.SUMMER \o <<"surf rock">>,
     broad |-> <<"pop", "rock">>,
     boost |-> <<"driving", "road trip", "windows down", "golden">>,
     anti |-> <<"dark", "sad", "melancholic", "winter">>,
     descriptors |-> <<"sunny", "coastal", "road-trip", "uplifting", "bright", "driving">>],
    [vibe |-> "Hammock Mode",
     core |-> T.CHILL,
     broad |-> <<"ambient", "acoustic">>,
     boost |-> <<"breeze", "lazy", "sunday", "warm">>,
     anti |-> <<"aggressive", "loud", "metal", "trap", "party">>,
     descriptors |-> <<"peaceful", "gentle", "floating", "wind-down", "warm", "effortless">>],
    [vibe |-> "Under A Palm Tree",
     core |-> T.REGGAE,
     broad |-> <<"tropical", "island">>,
     boost |-> <<"sunny", "warm", "beach">>,
     anti |-> <<"metal", "punk", "trap">>,
     descriptors |-> <<"sunny", "warm", "swaying", "groove-locked", "coastal", "effortless">>],
    [vibe |-> "Rainy Day Replay",
     core |-> <<"rainy day", "rain">> \o T.SAD,
     broad |-> <<"sad", "ballad">>,
     boost |-> <<"piano", "acoustic", "soft", "solo">>,
     anti |-> <<"happy", "party", "upbeat", "summer">>,
     descriptors |-> <<"rainy-day", "melancholic", "bittersweet", "introspective", "wind-down", "tender">>],
    [vibe |-> "Zen Garden",
     core |-> T.STUDY \o <<"lofi beats">>,
     broad |-> <<"instrumental", "ambient">>,
     boost |-> <<"minimal", "peaceful", "zen">>,
     anti |-> <<"vocal", "loud", "aggressive", "party">>,
     descriptors |-> <<"study-session", "minimal", "hypnotic", "spacious", "peaceful", "lo-fi">>],
    [vibe |-> "Do Not Disturb",
     core |-> T.CINEMATIC \o <<"post rock">>,
     broad |-> <<"atmospheric", "instrumental">>,
     boost |-> <<"epic", "intense", "powerful", "deep">>,
     anti |-> <<"pop", "party", "dance", "upbeat">>,
     descriptors |-> <<"cinematic", "spacious", "introspective", "expansive", "haunting", "layered">>],
    [vibe |-> "Full Throttle",
     core |-> T.METAL,
     broad |-> <<"metal", "hardcore">>,
     boost |-> <<"power", "speed", "intense">>,
     anti |-> <<"chill", "acoustic", "jazz", "pop">>,
     descriptors |-> <<"relentless", "explosive", "defiant", "dark", "driving", "raw">>],
    [vibe |-> "Mosh Pit Magic",
     core |-> T.METAL_CORE \o <<"mosh", "breakdown">>,
     broad |-> <<"hardcore", "punk">>,
     boost |-> <<"pit", "crowd", "chaos">>,
     anti |-> <<"chill", "mellow", "acoustic", "jazz">>,
     descriptors |-> <<"cathartic", "explosive", "relentless", "defiant", "kinetic", "raw">>],
    [vibe |-> "Dad Rock",
     core |-> T.ROCK_CLASSIC,
     broad |-> <<"rock">>,
     boost |-> <<"guitar solo", "anthem", "stadium">>,
     anti |-> <<"trap", "electronic", "edm", "lo fi">>,
     descriptors |-> <<"timeless", "anthemic", "driving", "retro", "crowd-pleaser", "warm">>],
    [vibe |-> "Heart on Sleeve",
     core |-> T.BALLAD \o <<"breakup anthem", "pop ballad">>,
     broad |-> <<"pop", "anthem">>,
     boost |-> <<"emotional", "dramatic", "vocal", "sing along">>,
     anti |-> <<"instrumental", "minimal", "lo fi", "ambient">>,
     descriptors |-> <<"anthemic", "vocal-forward", "cathartic", "romantic", "uplifting", "euphoric">>],
    [vibe |-> "Side B",
     core |-> T.POP_PUNK,
     broad |-> <<"sing along", "rock anthem", "2000s">>,
     boost |-> <<"nostalgic", "anthemic", "car", "youth">>,
     anti |-> <<"jazz", "classical", "ambient", "chill">>,
     descriptors |-> <<"anthemic", "nostalgic", "cathartic", "crowd-pleaser", "driving", "earworm">>],
    [vibe |-> "Pulso",
     core |-> T.LATIN_URBAN \o T.LATIN_TRAD,
     broad |-> <<"latin", "latin pop">>,
     boost |-> <<"fiesta", "bass", "perreo">>,
     anti |-> <<"folk", "country", "acoustic", "jazz">>,
     descriptors |-> <<"pulsing", "kinetic", "party-starter", "bass-heavy", "beat-driven", "crowd-pleaser">>],
    [vibe |-> "Palmwine Nights",
     core |-> T.AFRO \o T.AFRO_DANCE,
     broad |-> <<"nigerian", "ghanaian", "south african", "african">>,
     boost |-> <<"groove", "warm", "night", "melodic">>,
     anti |-> <<"metal", "punk", "country", "folk">>,
     descriptors |-> <<"groove-locked", "warm", "sunny", "swaying", "melody-first", "effortless">>],
    [vibe |-> "Pixelated Pop",
     core |-> T.HYPERPOP \o T.GLITCH \o <<"deconstructed">>,
     broad |-> <<"glitch", "electronic">>,
     boost |-> <<"digital", "chaotic", "warped", "futuristic">>,
     anti |-> <<"acoustic", "folk", "country", "jazz">>,
     descriptors |-> <<"synthetic", "maximal", "playful", "futuristic", "bright", "experimental">>],
    [vibe |-> "Electric Daydream",
     core |-> T.SYNTH \o <<"darkwave">>,
     broad |-> <<"synth", "electronic", "new wave">>,
     boost |-> <<"cinematic", "driving", "neon", "city">>,
     anti |-> <<"acoustic", "folk", "country">>,
     descriptors |-> <<"synthetic", "cinematic", "dreamy", "shimmering", "driving", "retro">>],
    [vibe |-> "In Sync",
     core |-> T.KPOP,
     broad |-> T.JPOP,
     boost |-> <<"choreography", "polished", "idol", "visual">>,
     anti |-> <<"folk", "country", "jazz", "metal">>,
     descriptors |-> <<"polished", "earworm", "bright", "kinetic", "maximal", "crisp">>],
    [vibe |-> "Unclassified (Vibe TBD)",
     core |-> <<>>,
     broad |-> <<>>,
     boost |-> <<>>,
     anti |-> <<>>,
     descriptors |-> <<"brain-scratch", "repeatable", "late-night">>]>>

\* part_003:722-803. Own properties of the SYNONYM_MAP object literal, as <<key, value>>.
SYNONYM_MAP == <<<<"hiphop", "hip hop">>, <<"r and b", "r&b">>, <<"rhythm and blues", "r&b">>,
    <<"rnb", "r&b">>, <<"electronica", "electronic">>, <<"lofi", "lo fi">>,
    <<"chillout", "chill">>, <<"downtempo", "chill">>, <<"postpunk", "post punk">>,
    <<"dreampop", "dream pop">>, <<"indiepop", "indie pop">>, <<"indierock", "indie rock">>,
    <<"indietronic", "indietronica">>, <<"alternativerock", "alternative rock">>,
    <<"alt rock", "alternative rock">>, <<"progrock", "progressive rock">>,
    <<"prog rock", "progressive rock">>, <<"synthpop", "synth pop">>,
    <<"electro pop", "electropop">>, <<"kpop", "k pop">>, <<"jpop", "j pop">>,
    <<"poppunk", "pop punk">>, <<"dnb", "drum and bass">>, <<"d&b", "drum and bass">>,
    <<"drum & bass", "drum and bass">>, <<"drum n bass", "drum and bass">>,
    <<"afro beats", "afrobeats">>, <<"afro pop", "afropop">>, <<"reggaeton", "reggaeton">>,
    <<"techno house", "tech house">>, <<"newwave", "new wave">>, <<"neosoul", "neo soul">>,
    <<"nudisco", "nu disco">>, <<"singer songwriter", "singer songwriter">>,
    <<"posthardcore", "post hardcore">>>>

\* part_003:1090-1163. The built-in proxy-tag test cases.
VIBE_TEST_CASES == <<
    [name |-> "ambient-space", tags |-> <<"ambient", "space", "cosmic", "ethereal", "atmospheric">>,
     expected |-> "Star Fishing", acceptable |-> <<>>],
    [name |-> "dream-pop", tags |-> <<"dream pop", "shoegaze", "indie", "dreamy">>,
     expected |-> "Velvet Haze", acceptable |-> <<>>],
    [name |-> "art-pop", tags |-> <<"art pop", "chamber pop", "experimental">>,
     expected |-> "Mind Palace", acceptable |-> <<>>],
    [name |-> "happy-pop", tags |-> <<"pop", "happy", "feel good", "uplifting">>,
     expected |-> "Cloud Nine", acceptable |-> <<>>],
    [name |-> "sunset-cinematic", tags |-> <<"indie pop", "sunset", "cinematic", "nostalgic", "warm">>,
     expected |-> "Golden Hour", acceptable |-> <<>>],
    [name |-> "house-club", tags |-> <<"house", "tech house", "electronic", "club">>,
     expected |-> "Crowd Control", acceptable |-> <<>>],
    [name |-> "festival-edm", tags |-> <<"edm", "festival", "big room", "anthem">>,
     expected |-> "Festival Buzz", acceptable |-> <<"Club Catalyst">>],
    [name |-> "dubstep-bass", tags |-> <<"dubstep", "riddim", "bass", "electronic">>,
     expected |-> "Feel The Bass", acceptable |-> <<>>],
    [name |-> "nu-disco-funk", tags |-> <<"nu-disco", "future funk", "dance", "funky">>,
     expected |-> "Rhythm Therapy", acceptable |-> <<>>],
    [name |-> "banger-party", tags |-> <<"banger", "throwback", "2000s party", "dance">>,
     expected |-> "Club Catalyst", acceptable |-> <<>>],
    [name |-> "trap-drill", tags |-> <<"trap", "drill", "aggressive", "hip hop">>,
     expected |-> "Heat Check", acceptable |-> <<>>],
    [name |-> "party-rap", tags |-> <<"rap", "hip hop", "hype", "party rap", "bounce">>,
     expected |-> "Bar for Bar", acceptable |-> <<>>],
    [name |-> "melodic-rap", tags |-> <<"melodic rap", "r&b", "late night", "moody">>,
     expected |-> "Afterparty", acceptable |-> <<>>],
    [name |-> "alt-hip-hop", tags |-> <<"alternative hip hop", "experimental", "hip hop">>,
     expected |-> "Color Theory", acceptable |-> <<>>],
    [name |-> "neo-soul", tags |-> <<"neo soul", "soul", "r&b", "warm">>,
     expected |-> "Soul Kitchen", acceptable |-> <<>>],
    [name |-> "slow-jam", tags |-> <<"slow jam", "contemporary r&b", "funk", "groove">>,
     expected |-> "Low-Light Groovy", acceptable |-> <<>>],
    [name |-> "disco-motown", tags |-> <<"disco", "motown", "funk", "boogie">>,
     expected |-> "Soul Train", acceptable |-> <<>>],
    [name |-> "jazz-fusion", tags |-> <<"jazz", "bebop", "swing", "lounge">>,
     expected |-> "Speakeasy", acceptable |-> <<>>],
    [name |-> "midwest-emo", tags |-> <<"emo", "midwest emo", "sad", "indie">>,
     expected |-> "Tumblr Core", acceptable |-> <<>>],
    [name |-> "nu-metal", tags |-> <<"nu metal", "alternative metal", "post-hardcore">>,
     expected |-> "White Noise", acceptable |-> <<>>],
    [name |-> "indie-rock", tags |-> <<"indie rock", "indie pop", "indie">>,
     expected |-> "Indie Wanderlust", acceptable |-> <<>>],
    [name |-> "grunge-garage", tags |-> <<"grunge", "garage rock", "punk", "alternative rock">>,
     expected |-> "Garage Grunge", acceptable |-> <<>>],
    [name |-> "electroclash", tags |-> <<"indie sleaze", "electroclash", "bloghouse">>,
     expected |-> "Indie Sleaze", acceptable |-> <<>>],
    [name |-> "bedroom-pop", tags |-> <<"lo-fi", "bedroom pop", "chillwave", "indie">>,
     expected |-> "Lo-Fi Nostalgia", acceptable |-> <<>>],
    [name |-> "indie-folk", tags |-> <<"indie folk", "folk", "acoustic", "singer-songwriter">>,
     expected |-> "Fireplace Folk", acceptable |-> <<>>],
    [name |-> "country-pop", tags |-> <<"country pop", "modern country", "country">>,
     expected |-> "Honey Glow", acceptable |-> <<>>],
    [name |-> "outlaw-country", tags |-> <<"classic country", "outlaw country", "bluegrass">>,
     expected |-> "Saddle Up", acceptable |-> <<>>],
    [name |-> "americana-roots", tags |-> <<"americana", "roots", "folk blues", "delta blues">>,
     expected |-> "Vintage Warmth", acceptable |-> <<>>],
    [name |-> "folk-road-trip", tags |-> <<"road trip", "folk rock", "alt-country", "americana">>,
     expected |-> "Scenic Route", acceptable |-> <<>>],
    [name |-> "metal-thrash", tags |-> <<"heavy metal", "thrash", "hard rock">>,
     expected |-> "Full Throttle", acceptable |-> <<>>],
    [name |-> "metalcore-mosh", tags |-> <<"metalcore", "hardcore punk", "breakdown", "mosh">>,
     expected |-> "Mosh Pit Magic", acceptable |-> <<>>],
    [name |-> "classic-rock", tags |-> <<"classic rock", "rock", "70s rock">>,
     expected |-> "Dad Rock", acceptable |-> <<>>],
    [name |-> "summer-beach", tags |-> <<"summer", "beach", "coastal", "sunny">>,
     expected |-> "Windows Down", acceptable |-> <<>>],
    [name |-> "chill-relax", tags |-> <<"chill", "relaxing", "mellow", "calm">>,
     expected |-> "Hammock Mode", acceptable |-> <<>>],
    [name |-> "reggae-dub", tags |-> <<"reggae", "dub", "ska", "dancehall">>,
     expected |-> "Under A Palm Tree", acceptable |-> <<>>],
    [name |-> "sad-rainy", tags |-> <<"sad", "melancholic", "heartbreak", "rainy day">>,
     expected |-> "Rainy Day Replay", acceptable |-> <<>>],
    [name |-> "study-focus", tags |-> <<"study", "focus", "lofi beats", "instrumental">>,
     expected |-> "Zen Garden", acceptable |-> <<>>],
    [name |-> "cinematic-score", tags |-> <<"cinematic", "soundtrack", "immersive", "atmospheric">>,
     expected |-> "Do Not Disturb", acceptable |-> <<>>],
    [name |-> "morning-dawn", tags |-> <<"morning", "dawn", "commute", "early morning">>,
     expected |-> "Sunrise Drive", acceptable |-> <<>>],
    [name |-> "sunday-coffee", tags |-> <<"peaceful", "morning", "acoustic", "coffee shop">>,
     expected |-> "Sunday Morning", acceptable |-> <<>>],
    [name |-> "ballad-diva", tags |-> <<"pop", "ballad", "big vocal", "belting">>,
     expected |-> "Heart on Sleeve", acceptable |-> <<>>],
    [name |-> "pop-punk-anthem", tags |-> <<"pop punk", "emo pop", "sing along", "rock anthem">>,
     expected |-> "Side B", acceptable |-> <<>>],
    [name |-> "reggaeton-latin", tags |-> <<"reggaeton", "latin trap", "dembow", "urbano">>,
     expected |-> "Pulso", acceptable |-> <<>>],
    [name |-> "afrobeats-core", tags |-> <<"afrobeats", "afropop", "nigerian">>,
     expected |-> "Palmwine Nights", acceptable |-> <<>>],
    [name |-> "hyperpop-glitch", tags |-> <<"hyperpop", "pc music", "glitch pop">>,
     expected |-> "Pixelated Pop", acceptable |-> <<>>],
    [name |-> "synth-pop", tags |-> <<"synth-pop", "electropop", "indie electronic">>,
     expected |-> "Electric Daydream", acceptable |-> <<>>],
    [name |-> "k-pop", tags |-> <<"k-pop", "korean pop">>,
     expected |-> "In Sync", acceptable |-> <<>>]>>

\* part_003:84-133. The keys of VIBE_META whose description is a non-empty string.
VIBE_META == {"Star Fishing", "Velvet Haze", "Cloud Nine", "Golden Hour", "Festival Buzz",
    "Sunrise Drive", "Crowd Control", "Heat Check", "Low-Light Groovy", "Speakeasy",
    "Tumblr Core", "White Noise", "Soul Kitchen", "Honey Glow", "Saddle Up", "Fireplace Folk",
    "Vintage Warmth", "Sunday Morning", "Bar for Bar", "Soul Train", "Afterparty",
    "Mind Palace", "Color Theory", "Rhythm Therapy", "Club Catalyst", "Indie Wanderlust",
    "Garage Grunge", "Indie Sleaze", "Lo-Fi Nostalgia", "Feel The Bass", "Dad Rock",
    "Full Throttle", "Mosh Pit Magic", "Windows Down", "Hammock Mode", "Under A Palm Tree",
    "Rainy Day Replay", "Zen Garden", "Do Not Disturb", "Scenic Route", "Heart on Sleeve",
    "Unclassified (Vibe TBD)", "Pulso", "Palmwine Nights", "Side B", "Pixelated Pop",
    "Electric Daydream", "In Sync"}

\* part_003:975-1024. The keys of VIBE_GRADIENTS.
VIBE_GRADIENTS == {"Star Fishing", "Velvet Haze", "Mind Palace", "Cloud Nine", "Golden Hour",
    "Festival Buzz", "Sunrise Drive", "Crowd Control", "Heat Check", "Bar for Bar",
    "Afterparty", "Color Theory", "Low-Light Groovy", "Speakeasy", "Tumblr Core",
    "White Noise", "Soul Kitchen", "Soul Train", "Honey Glow", "Saddle Up", "Fireplace Folk",
    "Vintage Warmth", "Sunday Morning", "Rhythm Therapy", "Club Catalyst", "Indie Wanderlust",
    "Garage Grunge", "Indie Sleaze", "Lo-Fi Nostalgia", "Feel The Bass", "Dad Rock",
    "Full Throttle", "Mosh Pit Magic", "Windows Down", "Hammock Mode", "Under A Palm Tree",
    "Rainy Day Replay", "Zen Garden", "Do Not Disturb", "Scenic Route", "Heart on Sleeve",
    "Pulso", "Palmwine Nights", "Side B", "Pixelated Pop", "Electric Daydream", "In Sync",
    "Unclassified (Vibe TBD)"}

\* feature-estimation.ts:63-257. Values are written in hundredths (0.85 is 85,
\* tempo 140 is 14000, loudness -5 is -500); features keeps Object.entries order.
TAG_PROFILES == <<
    [patterns |-> <<"energetic", "powerful", "intense", "heavy", "aggressive", "hard">>,
     features |-> <<<<"energy", 85>>, <<"loudness", -500>>, <<"valence", 55>>>>],
    [patterns |-> <<"chill", "relaxing", "mellow", "calm", "peaceful", "ambient">>,
     features |-> <<<<"energy", 25>>, <<"loudness", -1200>>, <<"valence", 45>>, <<"tempo", 9000>>>>],
    [patterns |-> <<"upbeat", "happy", "feel good", "fun", "party">>,
     features |-> <<<<"energy", 75>>, <<"valence", 80>>, <<"danceability", 70>>>>],
    [patterns |-> <<"fast", "uptempo", "driving">>,
     features |-> <<<<"tempo", 14000>>, <<"energy", 75>>>>],
    [patterns |-> <<"slow", "ballad", "downtempo">>,
     features |-> <<<<"tempo", 7500>>, <<"energy", 35>>, <<"danceability", 35>>>>],
    [patterns |-> <<"metal", "death metal", "black metal", "thrash", "hardcore">>,
     features |-> <<<<"energy", 95>>, <<"loudness", -400>>, <<"tempo", 16000>>, <<"valence", 35>>, <<"danceability", 30>>, <<"instrumentalness", 20>>>>],
    [patterns |-> <<"punk", "punk rock", "pop punk">>,
     features |-> <<<<"energy", 85>>, <<"tempo", 16000>>, <<"loudness", -500>>, <<"danceability", 50>>>>],
    [patterns |-> <<"rock", "alternative rock", "indie rock", "hard rock">>,
     features |-> <<<<"energy", 70>>, <<"loudness", -600>>, <<"tempo", 12500>>, <<"acousticness", 15>>>>],
    [patterns |-> <<"classic rock", "soft rock", "70s", "80s rock">>,
     features |-> <<<<"energy", 60>>, <<"loudness", -700>>, <<"tempo", 11500>>, <<"acousticness", 25>>>>],
    [patterns |-> <<"pop", "dance pop", "synthpop", "electropop">>,
     features |-> <<<<"energy", 70>>, <<"danceability", 70>>, <<"valence", 65>>, <<"tempo", 12000>>, <<"loudness", -500>>>>],
    [patterns |-> <<"electronic", "edm", "electro", "electronica">>,
     features |-> <<<<"energy", 75>>, <<"danceability", 70>>, <<"acousticness", 5>>, <<"instrumentalness", 40>>, <<"tempo", 12800>>>>],
    [patterns |-> <<"house", "deep house", "tech house">>,
     features |-> <<<<"energy", 70>>, <<"danceability", 80>>, <<"tempo", 12500>>, <<"acousticness", 5>>, <<"instrumentalness", 50>>>>],
    [patterns |-> <<"techno", "minimal techno">>,
     features |-> <<<<"energy", 80>>, <<"danceability", 75>>, <<"tempo", 13000>>, <<"acousticness", 2>>, <<"instrumentalness", 70>>>>],
    [patterns |-> <<"trance", "progressive trance", "psytrance">>,
     features |-> <<<<"energy", 80>>, <<"danceability", 65>>, <<"tempo", 13800>>, <<"acousticness", 2>>, <<"instrumentalness", 60>>, <<"valence", 60>>>>],
    [patterns |-> <<"dubstep", "brostep", "bass">>,
     features |-> <<<<"energy", 85>>, <<"danceability", 60>>, <<"tempo", 14000>>, <<"loudness", -400>>, <<"acousticness", 2>>>>],
    [patterns |-> <<"drum and bass", "dnb", "jungle">>,
     features |-> <<<<"energy", 85>>, <<"danceability", 65>>, <<"tempo", 17400>>, <<"acousticness", 2>>, <<"instrumentalness", 40>>>>],
    [patterns |-> <<"hip hop", "hip-hop", "rap", "trap">>,
     features |-> <<<<"energy", 65>>, <<"danceability", 75>>, <<"speechiness", 25>>, <<"tempo", 9500>>, <<"valence", 50>>, <<"acousticness", 10>>>>],
    [patterns |-> <<"r&b", "rnb", "rhythm and blues", "neo soul">>,
     features |-> <<<<"energy", 50>>, <<"danceability", 65>>, <<"valence", 55>>, <<"tempo", 9500>>, <<"acousticness", 30>>>>],
    [patterns |-> <<"soul", "motown", "funk">>,
     features |-> <<<<"energy", 65>>, <<"danceability", 70>>, <<"valence", 70>>, <<"tempo", 11000>>, <<"acousticness", 35>>>>],
    [patterns |-> <<"jazz", "smooth jazz", "bebop", "swing">>,
     features |-> <<<<"energy", 45>>, <<"danceability", 50>>, <<"acousticness", 60>>, <<"instrumentalness", 50>>, <<"valence", 55>>, <<"tempo", 12000>>>>],
    [patterns |-> <<"blues", "delta blues", "chicago blues">>,
     features |-> <<<<"energy", 50>>, <<"danceability", 45>>, <<"acousticness", 55>>, <<"valence", 40>>, <<"tempo", 9500>>>>],
    [patterns |-> <<"classical", "orchestra", "symphony", "baroque", "romantic">>,
     features |-> <<<<"energy", 35>>, <<"danceability", 20>>, <<"acousticness", 90>>, <<"instrumentalness", 95>>, <<"valence", 40>>, <<"tempo", 9000>>, <<"loudness", -1500>>>>],
    [patterns |-> <<"folk", "folk rock", "traditional">>,
     features |-> <<<<"energy", 45>>, <<"danceability", 45>>, <<"acousticness", 75>>, <<"valence", 50>>, <<"tempo", 10000>>>>],
    [patterns |-> <<"country", "americana", "bluegrass">>,
     features |-> <<<<"energy", 55>>, <<"danceability", 55>>, <<"acousticness", 60>>, <<"valence", 60>>, <<"tempo", 11500>>>>],
    [patterns |-> <<"acoustic", "unplugged", "singer-songwriter">>,
     features |-> <<<<"energy", 35>>, <<"danceability", 40>>, <<"acousticness", 85>>, <<"valence", 45>>, <<"tempo", 10000>>, <<"loudness", -1200>>>>],
    [patterns |-> <<"reggae", "dub", "ska">>,
     features |-> <<<<"energy", 55>>, <<"danceability", 70>>, <<"valence", 70>>, <<"tempo", 9000>>, <<"acousticness", 30>>>>],
    [patterns |-> <<"latin", "salsa", "merengue", "cumbia", "bachata">>,
     features |-> <<<<"energy", 70>>, <<"danceability", 80>>, <<"valence", 75>>, <<"tempo", 10500>>, <<"acousticness", 25>>>>],
    [patterns |-> <<"reggaeton", "dembow">>,
     features |-> <<<<"energy", 75>>, <<"danceability", 85>>, <<"valence", 70>>, <<"tempo", 9500>>, <<"speechiness", 15>>>>],
    [patterns |-> <<"k-pop", "kpop", "j-pop", "jpop">>,
     features |-> <<<<"energy", 75>>, <<"danceability", 75>>, <<"valence", 70>>, <<"tempo", 12500>>, <<"loudness", -500>>>>],
    [patterns |-> <<"afrobeats", "afropop", "afrofusion", "afroswing">>,
     features |-> <<<<"energy", 65>>, <<"danceability", 80>>, <<"valence", 70>>, <<"tempo", 10500>>, <<"acousticness", 20>>>>],
    [patterns |-> <<"amapiano", "afro house">>,
     features |-> <<<<"energy", 60>>, <<"danceability", 85>>, <<"valence", 65>>, <<"tempo", 11500>>, <<"acousticness", 10>>, <<"instrumentalness", 30>>>>],
    [patterns |-> <<"highlife">>,
     features |-> <<<<"energy", 55>>, <<"danceability", 70>>, <<"valence", 70>>, <<"tempo", 11000>>, <<"acousticness", 40>>>>],
    [patterns |-> <<"hyperpop", "pc music", "glitch pop", "bubblegum bass", "nightcore", "digicore">>,
     features |-> <<<<"energy", 85>>, <<"danceability", 65>>, <<"valence", 60>>, <<"tempo", 15000>>, <<"loudness", -400>>, <<"acousticness", 2>>>>],
    [patterns |-> <<"darkwave", "coldwave">>,
     features |-> <<<<"energy", 55>>, <<"danceability", 55>>, <<"valence", 30>>, <<"tempo", 12000>>, <<"acousticness", 10>>>>],
    [patterns |-> <<"indie", "indie pop", "indie folk">>,
     features |-> <<<<"energy", 50>>, <<"danceability", 50>>, <<"acousticness", 40>>, <<"valence", 45>>, <<"tempo", 11500>>>>],
    [patterns |-> <<"shoegaze", "dream pop", "ethereal">>,
     features |-> <<<<"energy", 45>>, <<"danceability", 40>>, <<"acousticness", 20>>, <<"valence", 40>>, <<"tempo", 10000>>, <<"loudness", -800>>>>],
    [patterns |-> <<"post-rock", "post rock">>,
     features |-> <<<<"energy", 55>>, <<"danceability", 25>>, <<"acousticness", 25>>, <<"instrumentalness", 70>>, <<"valence", 35>>, <<"tempo", 10000>>>>],
    [patterns |-> <<"ambient", "drone", "dark ambient">>,
     features |-> <<<<"energy", 20>>, <<"danceability", 15>>, <<"acousticness", 30>>, <<"instrumentalness", 90>>, <<"valence", 30>>, <<"tempo", 8000>>, <<"loudness", -1800>>>>],
    [patterns |-> <<"lofi", "lo-fi", "chillhop">>,
     features |-> <<<<"energy", 35>>, <<"danceability", 55>>, <<"acousticness", 35>>, <<"instrumentalness", 60>>, <<"valence", 45>>, <<"tempo", 8500>>>>],
    [patterns |-> <<"sad", "melancholic", "depressing", "dark">>,
     features |-> <<<<"valence", 20>>, <<"energy", 35>>, <<"mode", 0>>>>],
    [patterns |-> <<"romantic", "love", "sensual">>,
     features |-> <<<<"valence", 55>>, <<"energy", 45>>, <<"tempo", 9500>>>>],
    [patterns |-> <<"angry", "aggressive", "rage">>,
     features |-> <<<<"energy", 90>>, <<"valence", 30>>, <<"loudness", -400>>>>],
    [patterns |-> <<"live", "concert", "bootleg">>,
     features |-> <<<<"liveness", 80>>, <<"acousticness", 40>>>>],
    [patterns |-> <<"instrumental", "no vocals">>,
     features |-> <<<<"instrumentalness", 90>>, <<"speechiness", 2>>>>],
    [patterns |-> <<"vocal", "vocals", "a cappella", "acappella">>,
     features |-> <<<<"instrumentalness", 5>>, <<"speechiness", 10>>, <<"acousticness", 50>>>>],
    [patterns |-> <<"spoken word", "poetry", "spoken">>,
     features |-> <<<<"speechiness", 80>>, <<"instrumentalness", 10>>, <<"danceability", 30>>>>]>>

(***************************************************************************)
(* Tag normalization                                                       *)
(***************************************************************************)

\* What `SYNONYM_MAP[n]` reads: an own property when n is a key of the literal,
\* else a property inherited from Object.prototype, else undefined.  The two
\* inherited properties with an all-lower-case name hold an object, not a string.
InheritedProperties ==
    << <<"constructor", "<function Object>">>, <<"__proto__", "<object Object.prototype>">> >>

Undefined == "<undefined>"

NonStringValues == {InheritedProperties[i][2] : i \in DOMAIN InheritedProperties} \cup {Undefined}

SynonymLookup(n) ==
    IF \E i \in DOMAIN SYNONYM_MAP : SYNONYM_MAP[i][1] = n
    THEN SYNONYM_MAP[CHOOSE i \in DOMAIN SYNONYM_MAP : SYNONYM_MAP[i][1] = n][2]
    ELSE IF \E i \in DOMAIN InheritedProperties : InheritedProperties[i][1] = n
    THEN InheritedProperties[CHOOSE i \in DOMAIN InheritedProperties :
                                InheritedProperties[i][1] = n][2]
    ELSE Undefined

\* part_003:805-815.
normalizeTag(tag) ==
    LET n1 == trim(toLowerCase(tag))
        n2 == stripDiacritics(n1)
        n3 == replaceNonWord(n2)
        n4 == trim(collapseWhitespace(n3))
        syn == SynonymLookup(n4)
    IN  IF syn # Undefined /\ syn # "" THEN syn ELSE n4

\* Array.from(xs) without the Set in between: duplicates are kept.
withDuplicates(xs) == xs

\* Array.from(new Set(xs)): the first occurrence of every element, in order.
RECURSIVE uniqueInOrder(_)
uniqueInOrder(xs) ==
    IF xs = <<>> THEN <<>>
    ELSE LET init == uniqueInOrder(SubSeq(xs, 1, Len(xs) - 1))
             last == xs[Len(xs)]
         IN  IF \E i \in DOMAIN init : init[i] = last THEN init ELSE Append(init, last)

\* part_003:817-819.  filter(Boolean) drops the empty string.
normalizeTags(tags) ==
    uniqueInOrder(SelectSeq(ArrayOf([i \in DOMAIN tags |-> normalizeTag(tags[i])]),
                            LAMBDA t : t # ""))

(***************************************************************************)
(* Pre-computed normalized signal data                                     *)
(***************************************************************************)

\* One entry of the map with the tiers as written, not normalized.
signalAsWritten(signal) ==
    [vibe |-> signal.vibe,
     core |-> SeqToSet(signal.core),
     broad |-> SeqToSet(signal.broad),
     boost |-> SeqToSet(signal.boost),
     anti |-> SeqToSet(signal.anti),
     descriptors |-> signal.descriptors]

\* part_003:836-842.  One entry of the map: the four tiers as sets of normalized tags.
normalizedSignal(signal) ==
    [vibe |-> signal.vibe,
     core |-> {normalizeTag(signal.core[i]) : i \in DOMAIN signal.core},
     broad |-> {normalizeTag(signal.broad[i]) : i \in DOMAIN signal.broad},
     boost |-> {normalizeTag(signal.boost[i]) : i \in DOMAIN signal.boost},
     anti |-> {normalizeTag(signal.anti[i]) : i \in DOMAIN signal.anti},
     descriptors |-> signal.descriptors]

\* part_003:833-845.  The map keeps insertion order: a sequence of entries.
buildNormalizedSignals ==
    ArrayOf([i \in DOMAIN VIBE_SIGNALS |-> normalizedSignal(VIBE_SIGNALS[i])])

\* Map.prototype.get on a map kept as a sequence of entries keyed by `vibe`.
SignalOf(signals, vibe) == signals[CHOOSE i \in DOMAIN signals : signals[i].vibe = vibe]

(***************************************************************************)
(* deriveVibeProfile                                                       *)
(***************************************************************************)

Unclassified == "Unclassified (Vibe TBD)"

\* part_003:310-313.  BOOST_W is 1.5: scores are kept in halves, and the boost
\* weight is written as its number of halves.
CORE_W == 3
BROAD_W == 1
BOOST_W_HALVES == 3
ANTI_W == -2

\* part_003:878-888.  The four counters after the loop over normalizedTagArr.
RECURSIVE countHits(_, _)
countHits(signal, tagArr) ==
    IF tagArr = <<>> THEN [core |-> 0, broad |-> 0, boost |-> 0, anti |-> 0]
    ELSE LET h == countHits(signal, SubSeq(tagArr, 1, Len(tagArr) - 1))
             tag == tagArr[Len(tagArr)]
         IN  [core |-> h.core + (IF tag \in signal.core THEN 1 ELSE 0),
              broad |-> h.broad + (IF tag \in signal.broad THEN 1 ELSE 0),
              boost |-> h.boost + (IF tag \in signal.boost THEN 1 ELSE 0),
              anti |-> h.anti + (IF tag \in signal.anti THEN 1 ELSE 0)]

\* The score without the base-evidence condition: boost hits always count.
scoreOfBoostUnconditional(hits) ==
    2 * (hits.core * CORE_W)
    + 2 * (hits.broad * BROAD_W)
    + hits.boost * BOOST_W_HALVES
    + 2 * (hits.anti * ANTI_W)

\* part_003:890-895.  The score, in halves.
scoreOf(hits) ==
    LET hasBaseEvidence == hits.core > 0 \/ hits.broad > 0
    IN  2 * (hits.core * CORE_W)
        + 2 * (hits.broad * BROAD_W)
        + (IF hasBaseEvidence THEN hits.boost * BOOST_W_HALVES ELSE 0)
        + 2 * (hits.anti * ANTI_W)

\* part_003:875-902.  The loop over signalEntries: the entries written to vibeScores
\* and vibeCoreCounts (and pushed to matchedRules), in insertion order.
scoreVibes(signals, tagArr) ==
    LET scored == ArrayOf([i \in DOMAIN signals |->
                     LET hits == countHits(signals[i], tagArr)
                     IN  [vibe |-> signals[i].vibe, score |-> scoreOf(hits),
                          coreHits |-> hits.core]])
    IN  SelectSeq(scored, LAMBDA e : e.vibe # Unclassified /\ e.score > 0)

\* String.prototype.localeCompare under the root collation, as far as the vibe
\* names go: strings are compared at the primary level (case folded; space, then
\* punctuation, then digits, then letters), and strings equal at that level by
\* case, lower case first.  The result is -1, 0 or 1.
CollationOrder == " -()0123456789abcdefghijklmnopqrstuvwxyz"

CollationKey == [c \in CharsOf(CollationOrder) |-> IndexOfChar(CollationOrder, c)]

collationKey(c) == IF c \in DOMAIN CollationKey THEN CollationKey[c] ELSE 0

RECURSIVE comparePrimary(_, _)
comparePrimary(a, b) ==
    IF a = "" /\ b = "" THEN 0
    ELSE IF a = "" THEN -1
    ELSE IF b = "" THEN 1
    ELSE LET ka == collationKey(SubSeq(a, 1, 1))
             kb == collationKey(SubSeq(b, 1, 1))
         IN  IF ka < kb THEN -1
             ELSE IF ka > kb THEN 1
             ELSE comparePrimary(SubSeq(a, 2, Len(a)), SubSeq(b, 2, Len(b)))

RECURSIVE compareCase(_, _)
compareCase(a, b) ==
    IF a = "" \/ b = "" THEN 0
    ELSE IF SubSeq(a, 1, 1) = SubSeq(b, 1, 1)
         THEN compareCase(SubSeq(a, 2, Len(a)), SubSeq(b, 2, Len(b)))
         ELSE IF LowerChar(SubSeq(a, 1, 1)) = SubSeq(a, 1, 1) THEN -1 ELSE 1

localeCompare(a, b) ==
    LET p == comparePrimary(toLowerCase(a), toLowerCase(b))
    IN  IF p # 0 THEN p ELSE compareCase(a, b)

\* The comparator without the tie-break on core hits.
compareVibesWithoutCoreHits(a, b) ==
    IF b.score # a.score THEN b.score - a.score
    ELSE localeCompare(a.vibe, b.vibe)

\* The comparator with the score difference the other way round.
compareVibesAscending(a, b) ==
    IF b.score # a.score THEN a.score - b.score
    ELSE IF b.coreHits # a.coreHits THEN b.coreHits - a.coreHits
    ELSE localeCompare(a.vibe, b.vibe)

\* part_003:906-912.  The comparator: negative when a sorts before b.
compareVibes(a, b) ==
    IF b.score # a.score THEN b.score - a.score
    ELSE IF b.coreHits # a.coreHits THEN b.coreHits - a.coreHits
    ELSE localeCompare(a.vibe, b.vibe)

\* No sort: the matched vibes stay in the order of VIBE_SIGNALS.
unsortedVibes(entries) == entries

\* Array.prototype.sort with compareVibes.  The sort is stable: an element comes
\* after the elements that sort strictly before it and after the earlier
\* elements that compare equal to it, which fixes its place in the result.
sortVibes(entries) ==
    LET place == ArrayOf([i \in DOMAIN entries |->
                    1 + Cardinality({j \in DOMAIN entries :
                          LET c == compareVibes(entries[j], entries[i])
                          IN  c < 0 \/ (c = 0 /\ j < i)})])
    IN  ArrayOf([p \in DOMAIN entries |->
            entries[CHOOSE i \in DOMAIN entries : place[i] = p]])

\* The weight of the position after: the loop index read as starting at 1.
positionalWeightOfNext(i) == IF 100 - (i + 1) * 8 > 50 THEN 100 - (i + 1) * 8 ELSE 50

\* part_003:930.  Math.max(0.5, 1 - i * 0.08), in hundredths; i counts from 0.
positionalWeight(i) == IF 100 - i * 8 > 50 THEN 100 - i * 8 ELSE 50

\* part_003:927-932.  The inner loop on one vibe: the amounts it adds, in order;
\* scores times weights are in two-hundredths.
vibeContributions(signal, score) ==
    ArrayOf([i \in DOMAIN signal.descriptors |->
        [desc |-> signal.descriptors[i], amount |-> score * positionalWeight(i - 1)]])

\* part_003:924-933.  The outer loop over sortedVibes: every amount added to
\* descScores, in the order the two loops add them.
RECURSIVE contributions(_, _)
contributions(signals, sortedVibes) ==
    IF sortedVibes = <<>> THEN <<>>
    ELSE LET e == sortedVibes[Len(sortedVibes)]
             before == contributions(signals, SubSeq(sortedVibes, 1, Len(sortedVibes) - 1))
         IN  IF \E i \in DOMAIN signals : signals[i].vibe = e.vibe
             THEN before \o vibeContributions(SignalOf(signals, e.vibe), e.score)
             ELSE before

RECURSIVE sumAmounts(_, _)
sumAmounts(added, at) ==
    IF at = {} THEN 0
    ELSE LET k == CHOOSE i \in at : TRUE
         IN  added[k].amount + sumAmounts(added, at \ {k})

\* part_003:923-933.  descScores[desc] = (descScores[desc] || 0) + amount for
\* every amount: a record kept as a sequence of [desc, score], a key entering
\* at its first assignment and holding the sum of its amounts.
scoreDescriptors(signals, sortedVibes) ==
    LET added == contributions(signals, sortedVibes)
        positions == ArrayOf([i \in DOMAIN added |-> i])
        firsts == SelectSeq(positions,
                      LAMBDA i : \A j \in 1..(i - 1) : added[j].desc # added[i].desc)
    IN  ArrayOf([k \in DOMAIN firsts |->
            [desc |-> added[firsts[k]].desc,
             score |-> sumAmounts(added,
                          {j \in DOMAIN added : added[j].desc = added[firsts[k]].desc})]])

\* part_003:936-938.  filter(s > 0) is applied by the caller; this is the stable
\* sort by score descending.
sortDescs(entries) ==
    LET place == ArrayOf([i \in DOMAIN entries |->
                    1 + Cardinality({j \in DOMAIN entries :
                          LET c == entries[i].score - entries[j].score
                          IN  c < 0 \/ (c = 0 /\ j < i)})])
    IN  ArrayOf([p \in DOMAIN entries |->
            entries[CHOOSE i \in DOMAIN entries : place[i] = p]])

\* String.prototype.slice(0, 4).
slice04(s) == SubSeq(s, 1, IF Len(s) < 4 THEN Len(s) ELSE 4)

DESCRIPTOR_SET == SeqToSet(DESCRIPTORS)

\* The picking loop without the filter on roots.
RECURSIVE pickDescriptorsAnyRoot(_, _, _)
pickDescriptorsAnyRoot(sortedDescs, i, descriptors) ==
    IF i > Len(sortedDescs) THEN descriptors
    ELSE IF Len(descriptors) >= 7 THEN descriptors
    ELSE LET desc == sortedDescs[i].desc
         IN  IF desc \notin DESCRIPTOR_SET
             THEN pickDescriptorsAnyRoot(sortedDescs, i + 1, descriptors)
             ELSE pickDescriptorsAnyRoot(sortedDescs, i + 1, Append(descriptors, desc))

\* part_003:940-953.  The picking loop from position i on, descriptors being
\* the array built so far; usedRoots holds the roots of its elements.
RECURSIVE pickDescriptors(_, _, _)
pickDescriptors(sortedDescs, i, descriptors) ==
    IF i > Len(sortedDescs) THEN descriptors
    ELSE IF Len(descriptors) >= 7 THEN descriptors
    ELSE LET desc == sortedDescs[i].desc
             root == slice04(desc)
             usedRoots == {slice04(descriptors[k]) : k \in DOMAIN descriptors}
         IN  IF desc \notin DESCRIPTOR_SET
             THEN pickDescriptors(sortedDescs, i + 1, descriptors)
             ELSE IF root \notin usedRoots
             THEN pickDescriptors(sortedDescs, i + 1, Append(descriptors, desc))
             ELSE pickDescriptors(sortedDescs, i + 1, descriptors)

FallbackDescriptors == <<"brain-scratch", "repeatable", "late-night">>

\* The fallback pushed whatever was picked.
withFallbackAlways(descriptors) == descriptors \o FallbackDescriptors

\* No fallback: the picked descriptors are returned as they are.
withoutFallback(descriptors) == descriptors

\* part_003:955-957.  if (descriptors.length === 0) descriptors.push(...).
withFallback(descriptors) ==
    IF Len(descriptors) = 0 THEN descriptors \o FallbackDescriptors ELSE descriptors

\* part_003:869-969.  The profile from normalizedTagArr, the array of the set of
\* normalized tags.
profileOfNormalized(normalizedTagArr) ==
    LET matched == scoreVibes(NORMALIZED_SIGNALS, normalizedTagArr)
        sortedVibes == sortVibes(matched)
        primaryVibeGenre == IF Len(sortedVibes) > 0 THEN sortedVibes[1].vibe ELSE Unclassified
        secondary == SubSeq(sortedVibes, 2, IF Len(sortedVibes) < 4 THEN Len(sortedVibes) ELSE 4)
        descScores == scoreDescriptors(NORMALIZED_SIGNALS, sortedVibes)
        sortedDescs == sortDescs(SelectSeq(descScores, LAMBDA d : d.score > 0))
        picked == pickDescriptors(sortedDescs, 1, <<>>)
    IN  [primaryVibeGenre |-> primaryVibeGenre,
         secondaryVibeGenres |-> ArrayOf([i \in DOMAIN secondary |-> secondary[i].vibe]),
         descriptors |-> withFallback(picked),
         debug |-> [matchedRules |-> ArrayOf([i \in DOMAIN matched |-> matched[i].vibe]),
                    vibeScores |-> ArrayOf([i \in DOMAIN matched |->
                                      [vibe |-> matched[i].vibe, score |-> matched[i].score]]),
                    descScores |-> descScores]]

\* The set built from sourceTags themselves, normalizeTags left out.
deriveVibeProfileOfSourceTags(tags) == profileOfNormalized(uniqueInOrder(tags))

\* part_003:864-969.  new Set(normalizeTags(sourceTags)), read as an array.
deriveVibeProfile(tags) == profileOfNormalized(uniqueInOrder(normalizeTags(tags)))
(***************************************************************************)
(* Audio feature estimation from tags                                      *)
(***************************************************************************)

\* Exact numbers: num/den in lowest terms, den > 0.
RECURSIVE Gcd(_, _)
Gcd(a, b) == IF b = 0 THEN a ELSE Gcd(b, a % b)

Abs(x) == IF x < 0 THEN -x ELSE x

Rat(n, d) ==
    LET g == Gcd(Abs(n), d)
    IN  [num |-> n \div g, den |-> d \div g]

RatLess(a, b) == a.num * b.den < b.num * a.den

RatLeq(a, b) == a.num * b.den <= b.num * a.den

\* feature-estimation.ts:18-31.  The fields of EstimatedFeatures.
FeatureNames ==
    {"tempo", "key", "mode", "time_signature", "loudness", "energy", "danceability",
     "valence", "acousticness", "instrumentalness", "liveness", "speechiness"}

\* The defaults with every unit feature at one half.
DEFAULT_FEATURES_UnitsAtHalf ==
    [tempo |-> Rat(120, 1),
     key |-> Rat(-1, 1),
     mode |-> Rat(1, 1),
     time_signature |-> Rat(4, 1),
     loudness |-> Rat(-8, 1),
     energy |-> Rat(5, 10),
     danceability |-> Rat(5, 10),
     valence |-> Rat(5, 10),
     acousticness |-> Rat(5, 10),
     instrumentalness |-> Rat(5, 10),
     liveness |-> Rat(5, 10),
     speechiness |-> Rat(5, 10)]

\* feature-estimation.ts:44-57.
DEFAULT_FEATURES ==
    [tempo |-> Rat(120, 1),
     key |-> Rat(-1, 1),
     mode |-> Rat(1, 1),
     time_signature |-> Rat(4, 1),
     loudness |-> Rat(-8, 1),
     energy |-> Rat(5, 10),
     danceability |-> Rat(5, 10),
     valence |-> Rat(5, 10),
     acousticness |-> Rat(3, 10),
     instrumentalness |-> Rat(1, 10),
     liveness |-> Rat(15, 100),
     speechiness |-> Rat(5, 100)]

\* The match read either way: a pattern in a tag, or a tag in a pattern.
profileMatchesEitherWay(profile, normalizedTags) ==
    \E p \in DOMAIN profile.patterns :
        LET pattern == toLowerCase(profile.patterns[p])
        IN  \E t \in DOMAIN normalizedTags :
                Includes(normalizedTags[t], pattern) \/ Includes(pattern, normalizedTags[t])

\* feature-estimation.ts:278-280.  Some pattern is a substring of some tag.
profileMatches(profile, normalizedTags) ==
    \E p \in DOMAIN profile.patterns :
        LET pattern == toLowerCase(profile.patterns[p])
        IN  \E t \in DOMAIN normalizedTags : Includes(normalizedTags[t], pattern)

\* The value a profile declares for a feature, as a one-element list, or none.
declared(profile, feature) ==
    LET hits == SelectSeq(profile.features, LAMBDA e : e[1] = feature)
    IN  ArrayOf([i \in DOMAIN hits |-> hits[i][2]])

\* feature-estimation.ts:282-290.  adjustments.get(feature): the samples pushed
\* for the first n of the profiles that matched, in profile order (values in
\* hundredths).
RECURSIVE samplesOf(_, _, _)
samplesOf(feature, matched, n) ==
    IF n = 0 THEN <<>>
    ELSE samplesOf(feature, matched, n - 1) \o declared(matched[n], feature)

RECURSIVE SumSeq(_)
SumSeq(xs) == IF xs = <<>> THEN 0 ELSE xs[Len(xs)] + SumSeq(SubSeq(xs, 1, Len(xs) - 1))

\* The first sample in place of the mean.
firstSample(values) == Rat(values[1], 100)

\* feature-estimation.ts:299.  values.reduce((a, b) => a + b, 0) / values.length.
average(values) == Rat(SumSeq(values), 100 * Len(values))

\* feature-estimation.ts:321-323.  Math.min(Math.max(value, min), max).
clamp(value, min, max) ==
    LET lo == Rat(min, 1)
        hi == Rat(max, 1)
        raised == IF RatLess(value, lo) THEN lo ELSE value
    IN  IF RatLess(hi, raised) THEN hi ELSE raised

\* The clamps with the tempo line copied from a unit feature: tempo is clamped
\* to 0..1.
clampFeaturesTempoAsUnit(result) ==
    [result EXCEPT
        !.energy = clamp(result.energy, 0, 1),
        !.danceability = clamp(result.danceability, 0, 1),
        !.valence = clamp(result.valence, 0, 1),
        !.acousticness = clamp(result.acousticness, 0, 1),
        !.instrumentalness = clamp(result.instrumentalness, 0, 1),
        !.liveness = clamp(result.liveness, 0, 1),
        !.speechiness = clamp(result.speechiness, 0, 1),
        !.tempo = clamp(result.tempo, 0, 1),
        !.loudness = clamp(result.loudness, -60, 0)]

\* feature-estimation.ts:305-313.
clampFeatures(result) ==
    [result EXCEPT
        !.energy = clamp(result.energy, 0, 1),
        !.danceability = clamp(result.danceability, 0, 1),
        !.valence = clamp(result.valence, 0, 1),
        !.acousticness = clamp(result.acousticness, 0, 1),
        !.instrumentalness = clamp(result.instrumentalness, 0, 1),
        !.liveness = clamp(result.liveness, 0, 1),
        !.speechiness = clamp(result.speechiness, 0, 1),
        !.tempo = clamp(result.tempo, 40, 220),
        !.loudness = clamp(result.loudness, -60, 0)]

\* feature-estimation.ts:265-316.
estimateFeaturesFromTags(tags) ==
    IF Len(tags) = 0 THEN DEFAULT_FEATURES
    ELSE LET normalizedTags == ArrayOf([i \in DOMAIN tags |-> toLowerCase(tags[i])])
             matched == SelectSeq(TAG_PROFILES,
                            LAMBDA profile : profileMatches(profile, normalizedTags))
             result == [f \in FeatureNames |->
                          LET values == samplesOf(f, matched, Len(matched))
                          IN  IF Len(values) > 0 THEN average(values)
                              ELSE DEFAULT_FEATURES[f]]
         IN  clampFeatures(result)
(***************************************************************************)
(* Calls on tag lists: the state after module load, one raw tag list, and  *)
(* the two calls analyzeTrackByName makes on it.                           *)
(***************************************************************************)

\* The raw tags a call may be given: spellings that normalize alike, tags of each
\* evidence tier, tags no vibe lists, a tag that matches several feature
\* profiles, the name of a property every object inherits, and the empty tag.
RawTags ==
    {"trap", "chill", "edm", "banger", "dark", "winter", "seen live", "lofi", "lo fi",
     "Lo-Fi", "hip hop", "Reggaetón", "dark ambient", "constructor", ""}

RECURSIVE ListsUpTo(_)
ListsUpTo(n) ==
    IF n = 0 THEN {<<>>}
    ELSE LET shorter == ListsUpTo(n - 1)
         IN  shorter \cup {Append(l, t) : l \in {s \in shorter : Len(s) = n - 1}, t \in RawTags}

TagLists == ListsUpTo(MaxTags)

NoTestResults == [passed |-> 0, failed |-> 0, failures |-> <<>>]

Init ==
    /\ NORMALIZED_SIGNALS = buildNormalizedSignals
    /\ sourceTags \in TagLists
    /\ pc = "estimate"
    /\ features = None
    /\ vibeProfile = None
    /\ nodeEnv = "production"
    /\ idx = 0
    /\ invalid = <<>>
    /\ testResults = NoTestResults
    /\ heartOk = "unset"
    /\ thrown = ""
    /\ IdleOutsideTagEngine

\* analysis-lastfm.ts:369.
Estimate ==
    /\ pc = "estimate"
    /\ features' = estimateFeaturesFromTags(sourceTags)
    /\ pc' = "derive"
    /\ UNCHANGED <<outsideTagEngine, NORMALIZED_SIGNALS, sourceTags, vibeProfile, nodeEnv, idx, invalid,
                   testResults, heartOk, thrown>>

\* analysis-lastfm.ts:389.
Derive ==
    /\ pc = "derive"
    /\ vibeProfile' = deriveVibeProfile(sourceTags)
    /\ pc' = "done"
    /\ UNCHANGED <<outsideTagEngine, NORMALIZED_SIGNALS, sourceTags, features, nodeEnv, idx, invalid,
                   testResults, heartOk, thrown>>

Next == Estimate \/ Derive

Spec == Init /\ [][Next]_vars

(***************************************************************************)
(* Module load and the development-mode startup block (part_003:847 and    *)
(* part_003:1204-1219).                                                    *)
(***************************************************************************)

InitStartup ==
    /\ NORMALIZED_SIGNALS = <<>>
    /\ sourceTags = <<>>
    /\ pc = "load"
    /\ features = None
    /\ vibeProfile = None
    /\ nodeEnv \in {"development", "production", "test"}
    /\ idx = 1
    /\ invalid = <<>>
    /\ testResults = NoTestResults
    /\ heartOk = "unset"
    /\ thrown = ""
    /\ IdleOutsideTagEngine

\* part_003:835-843.  One iteration of the loop of buildNormalizedSignals.
BuildSignal ==
    /\ pc = "load"
    /\ idx <= Len(VIBE_SIGNALS)
    /\ NORMALIZED_SIGNALS' = Append(NORMALIZED_SIGNALS, normalizedSignal(VIBE_SIGNALS[idx]))
    /\ idx' = idx + 1
    /\ UNCHANGED <<outsideTagEngine, pc, sourceTags, features, vibeProfile, nodeEnv, invalid, testResults,
                   heartOk, thrown>>

\* part_003:1204.  The map is built; the block runs in development only.
Loaded ==
    /\ pc = "load"
    /\ idx > Len(VIBE_SIGNALS)
    /\ pc' = IF nodeEnv = "development" THEN "gradients" ELSE "ready"
    /\ idx' = 1
    /\ UNCHANGED <<outsideTagEngine, NORMALIZED_SIGNALS, sourceTags, features, vibeProfile, nodeEnv, invalid,
                   testResults, heartOk, thrown>>

\* part_003:1038-1046.
assertVibeGradientsComplete ==
    LET missing == SelectSeq(VIBE_GENRES, LAMBDA g : g \notin VIBE_GRADIENTS)
    IN  /\ pc = "gradients"
        /\ IF Len(missing) > 0
           THEN thrown' = "Missing VIBE_GRADIENTS" /\ pc' = "ready"
           ELSE thrown' = thrown /\ pc' = "meta"
        /\ UNCHANGED <<outsideTagEngine, NORMALIZED_SIGNALS, sourceTags, features, vibeProfile, nodeEnv, idx,
                       invalid, testResults, heartOk>>

\* part_003:1048-1058.
assertVibeMetaComplete ==
    LET missing == SelectSeq(VIBE_GENRES, LAMBDA g : g \notin VIBE_META)
    IN  /\ pc = "meta"
        /\ IF Len(missing) > 0
           THEN thrown' = "Missing or empty VIBE_META" /\ pc' = "ready"
           ELSE thrown' = thrown /\ pc' = "descriptors"
        /\ UNCHANGED <<outsideTagEngine, NORMALIZED_SIGNALS, sourceTags, features, vibeProfile, nodeEnv, idx,
                       invalid, testResults, heartOk>>

\* part_003:1062-1066.  One iteration of the outer loop of assertDescriptorsValid.
CheckDescriptors ==
    /\ pc = "descriptors"
    /\ idx <= Len(VIBE_SIGNALS)
    /\ invalid' = invalid \o SelectSeq(VIBE_SIGNALS[idx].descriptors,
                                       LAMBDA d : d \notin DESCRIPTOR_SET)
    /\ idx' = idx + 1
    /\ UNCHANGED <<outsideTagEngine, NORMALIZED_SIGNALS, pc, sourceTags, features, vibeProfile, nodeEnv,
                   testResults, heartOk, thrown>>

\* part_003:1067-1069.
DescriptorsChecked ==
    /\ pc = "descriptors"
    /\ idx > Len(VIBE_SIGNALS)
    /\ IF Len(invalid) > 0
       THEN thrown' = "Invalid descriptors in VIBE_SIGNALS" /\ pc' = "ready"
       ELSE thrown' = thrown /\ pc' = "heart"
    /\ idx' = 1
    /\ UNCHANGED <<outsideTagEngine, NORMALIZED_SIGNALS, sourceTags, features, vibeProfile, nodeEnv, invalid,
                   testResults, heartOk>>

\* part_003:1172.  [profile.primaryVibeGenre, ...profile.secondaryVibeGenres.slice(0, 1)]
topTwoOf(p) ==
    <<p.primaryVibeGenre>>
        \o SubSeq(p.secondaryVibeGenres, 1, IF Len(p.secondaryVibeGenres) < 1 THEN 0 ELSE 1)

\* part_003:1190-1201.
testHeartOnSleeveFitsBalladTags ==
    LET testTags == <<"pop", "ballad", "big vocal">>
        result == deriveVibeProfile(testTags)
        has == "Heart on Sleeve" \in SeqToSet(topTwoOf(result))
    IN  /\ pc = "heart"
        /\ sourceTags' = testTags
        /\ vibeProfile' = result
        /\ heartOk' = IF has THEN "true" ELSE "false"
        /\ pc' = "tests"
        /\ UNCHANGED <<outsideTagEngine, NORMALIZED_SIGNALS, features, nodeEnv, idx, invalid, testResults,
                       thrown>>

\* part_003:1170-1184.  One iteration of the loop of runVibeTests.
RunVibeTest ==
    /\ pc = "tests"
    /\ idx <= Len(VIBE_TEST_CASES)
    /\ LET tc == VIBE_TEST_CASES[idx]
           result == deriveVibeProfile(tc.tags)
           topTwo == topTwoOf(result)
           acceptable == <<tc.expected>> \o tc.acceptable
           ok == \E a \in DOMAIN acceptable : acceptable[a] \in SeqToSet(topTwo)
       IN  /\ sourceTags' = tc.tags
           /\ vibeProfile' = result
           /\ testResults' =
                IF ok THEN [testResults EXCEPT !.passed = @ + 1]
                ELSE [testResults EXCEPT !.failed = @ + 1,
                                         !.failures = Append(@, tc.name)]
    /\ idx' = idx + 1
    /\ UNCHANGED <<outsideTagEngine, NORMALIZED_SIGNALS, pc, features, nodeEnv, invalid, heartOk, thrown>>

\* part_003:1186 and 1211-1215.  runVibeTests returns; failures are only warned about.
TestsRun ==
    /\ pc = "tests"
    /\ idx > Len(VIBE_TEST_CASES)
    /\ pc' = "ready"
    /\ UNCHANGED <<outsideTagEngine, NORMALIZED_SIGNALS, sourceTags, features, vibeProfile, nodeEnv, idx,
                   invalid, testResults, heartOk, thrown>>

NextStartup ==
    \/ BuildSignal
    \/ Loaded
    \/ assertVibeGradientsComplete
    \/ assertVibeMetaComplete
    \/ CheckDescriptors
    \/ DescriptorsChecked
    \/ testHeartOnSleeveFitsBalladTags
    \/ RunVibeTest
    \/ TestsRun

SpecStartup == InitStartup /\ [][NextStartup]_vars


(***************************************************************************)
(* Properties of the two calls on a tag list                               *)
(***************************************************************************)

\* A list holding every element of S once; the same list for the same set.
RECURSIVE ListOf(_)
ListOf(S) ==
    IF S = {} THEN <<>>
    ELSE LET x == CHOOSE e \in S : TRUE
         IN  <<x>> \o ListOf(S \ {x})

Within(v, lo, hi) == RatLeq(Rat(lo, 1), v) /\ RatLeq(v, Rat(hi, 1))

UnitFeatures ==
    {"energy", "danceability", "valence", "acousticness", "instrumentalness",
     "liveness", "speechiness"}

\* C1.  Whatever the tag list, the vector estimateFeaturesFromTags returns has
\* all twelve fields, its seven unit features within 0..1, its tempo within
\* 40..220 and its loudness within -60..0.
C1_FeaturesWithinRanges ==
    features # None =>
        /\ DOMAIN features = FeatureNames
        /\ \A f \in UnitFeatures : Within(features[f], 0, 1)
        /\ Within(features.tempo, 40, 220)
        /\ Within(features.loudness, -60, 0)

\* A vector estimated from two tags in which profiles set the tempo and the
\* loudness to values other than the defaults.
C1_Witness ==
    /\ features # None
    /\ Len(sourceTags) = 2
    /\ features.tempo # DEFAULT_FEATURES.tempo
    /\ features.loudness # DEFAULT_FEATURES.loudness
    /\ features.energy # DEFAULT_FEATURES.energy

\* C2.  Order and multiplicity of the input do not matter: both results on a tag
\* list are the results on the list that holds each of its tags once, in an
\* order fixed by the set of tags alone.  Two lists that are permutations or
\* duplications of one another have that list in common, hence equal results:
\* the same primary, secondaries, descriptors (in order) and feature values.
C2_OrderAndMultiplicityIrrelevant ==
    pc = "done" =>
        /\ features = estimateFeaturesFromTags(ListOf(SeqToSet(sourceTags)))
        /\ vibeProfile = deriveVibeProfile(ListOf(SeqToSet(sourceTags)))

\* Both calls have returned on a list that repeats a tag some vibe scores on, and
\* on a list of two such tags in the order opposite to the fixed one.
C2_Witness ==
    /\ pc = "done"
    /\ Len(sourceTags) = 2
    /\ vibeProfile.primaryVibeGenre # Unclassified
    /\ features # DEFAULT_FEATURES
    /\ \/ sourceTags[1] = sourceTags[2]
       \/ /\ sourceTags # ListOf(SeqToSet(sourceTags))
          /\ Len(vibeProfile.debug.matchedRules) > 1

\* The lower-cased tags of a list, as estimateFeaturesFromTags reads them.
LowerCased(tags) == {toLowerCase(tags[i]) : i \in DOMAIN tags}

Distinct(xs) == \A i, j \in DOMAIN xs : xs[i] = xs[j] => i = j

InputTags == SeqToSet(normalizeTags(sourceTags))

\* The hits of a set of tags in the tiers of a signal, and the stated score:
\* 3 core + 1 broad + 1.5 boost (with base evidence only) - 2 anti, in halves.
StandingOf(signal, tags) ==
    LET core == Cardinality(tags \cap signal.core)
        broad == Cardinality(tags \cap signal.broad)
        boost == Cardinality(tags \cap signal.boost)
        anti == Cardinality(tags \cap signal.anti)
    IN  [vibe |-> signal.vibe, core |-> core, broad |-> broad, boost |-> boost,
         anti |-> anti,
         score |-> 6 * core + 2 * broad
                   + (IF core > 0 \/ broad > 0 THEN 3 * boost ELSE 0) - 4 * anti]

\* The standing of every vibe other than the sentinel.
Standings ==
    LET tags == InputTags
    IN  {StandingOf(NORMALIZED_SIGNALS[i], tags) :
            i \in {k \in DOMAIN NORMALIZED_SIGNALS :
                      NORMALIZED_SIGNALS[k].vibe # "Unclassified (Vibe TBD)"}}

Positive(standings) == {s \in standings : s.score > 0}

VibesOf(standings) == {s.vibe : s \in standings}

\* C4.  deriveVibeProfile returns on every list, and when no vibe has a score
\* above 0 (the empty list, tags no vibe lists, tags hit as anti or boost only)
\* the profile is the sentinel with no secondaries and the fallback triple.
C4_SentinelWhenNothingScores ==
    pc = "done" =>
        /\ vibeProfile # None
        /\ Positive(Standings) = {} =>
              /\ vibeProfile.primaryVibeGenre = "Unclassified (Vibe TBD)"
              /\ vibeProfile.secondaryVibeGenres = <<>>
              /\ vibeProfile.descriptors = <<"brain-scratch", "repeatable", "late-night">>

\* A profile derived from a non-empty list that hits boost tags of a vibe and
\* only anti tags of another while no vibe scores.
C4_Witness ==
    /\ pc = "done"
    /\ InputTags # {}
    /\ LET standings == Standings
       IN  /\ Positive(standings) = {}
           /\ \E s \in standings : s.boost > 0
           /\ \E s \in standings : s.anti > 0 /\ s.boost = 0
    /\ vibeProfile.primaryVibeGenre = Unclassified

\* C5.  debug.vibeScores and debug.matchedRules hold exactly the vibes, other
\* than the sentinel, whose stated score is above 0, each with that score; a
\* vibe hit on boost tags alone is not among them.
C5_ScoresAsStated ==
    pc = "done" =>
        LET vibeScores == vibeProfile.debug.vibeScores
            scored == {vibeScores[k].vibe : k \in DOMAIN vibeScores}
            standings == Standings
        IN  /\ Cardinality(standings) = Len(VIBE_GENRES) - 1
            /\ scored = VibesOf(Positive(standings))
            /\ \A k \in DOMAIN vibeScores :
                  \E s \in standings :
                      s.vibe = vibeScores[k].vibe /\ s.score = vibeScores[k].score
            /\ Distinct(ArrayOf([k \in DOMAIN vibeScores |-> vibeScores[k].vibe]))
            /\ SeqToSet(vibeProfile.debug.matchedRules) = scored
            /\ Distinct(vibeProfile.debug.matchedRules)
            /\ Unclassified \notin scored
            /\ \A s \in standings : s.core = 0 /\ s.broad = 0 => s.vibe \notin scored

\* One list on which a vibe is scored with a boost hit counted, a vibe is hit
\* on a boost tag alone, and a vibe is hit on an anti tag.
C5_Witness ==
    /\ pc = "done"
    /\ LET standings == Standings
       IN  /\ \E s \in Positive(standings) : s.boost > 0
           /\ \E s \in standings \ Positive(standings) : s.boost > 0
           /\ \E s \in standings : s.anti > 0

\* a ranks before b: higher score, then more core hits, then the name first.
RanksBefore(a, b) ==
    \/ a.score > b.score
    \/ a.score = b.score /\ a.core > b.core
    \/ a.score = b.score /\ a.core = b.core /\ localeCompare(a.vibe, b.vibe) < 0

RankAmong(matched, s) == Cardinality({w \in matched : RanksBefore(w, s)})

\* C6.  Score descending, core hits descending, name ascending order the
\* matched vibes strictly and totally; the primary is the vibe of rank 0, or
\* the sentinel when nothing matched, and the secondaries are the vibes of
\* ranks 1 to 3, in that order.
C6_RankingDecidesPrimaryAndSecondaries ==
    pc = "done" =>
        LET secondaries == vibeProfile.secondaryVibeGenres
            matched == Positive(Standings)
            ranked == ArrayOf([k \in 1..(Len(secondaries) + 1) |->
                         IF k = 1 THEN vibeProfile.primaryVibeGenre
                         ELSE secondaries[k - 1]])
        IN  /\ \A a, b \in matched : a # b => (RanksBefore(a, b) <=> ~RanksBefore(b, a))
            /\ \A a \in matched : ~RanksBefore(a, a)
            /\ Len(secondaries) =
                  (IF Cardinality(matched) > 3 THEN 3
                   ELSE IF matched = {} THEN 0 ELSE Cardinality(matched) - 1)
            /\ IF matched = {} THEN vibeProfile.primaryVibeGenre = Unclassified
               ELSE \A k \in DOMAIN ranked :
                       \E s \in matched :
                           s.vibe = ranked[k] /\ RankAmong(matched, s) = k - 1

\* A ranking that fills the primary and the three secondaries, in which the
\* core hits decide between two neighbours and the name between two others.
C6_Witness ==
    /\ pc = "done"
    /\ LET matched == Positive(Standings)
       IN  /\ Cardinality(matched) >= 4
           /\ Len(vibeProfile.secondaryVibeGenres) = 3
           /\ \E a, b \in matched :
                 /\ a.score = b.score
                 /\ a.core > b.core
                 /\ RankAmong(matched, b) = RankAmong(matched, a) + 1
           /\ \E a, b \in matched :
                 /\ a # b
                 /\ a.score = b.score
                 /\ a.core = b.core
                 /\ RankAmong(matched, b) = RankAmong(matched, a) + 1
                 /\ RankAmong(matched, b) <= 3

\* C7.  Every profile is well formed: the primary is a vibe of VIBE_GENRES; at
\* most three secondaries, distinct, none the primary, none the sentinel; at
\* most seven descriptors, all of DESCRIPTORS, no two with the same first four
\* characters.
C7_ProfileWellFormed ==
    vibeProfile # None =>
        LET secondaries == vibeProfile.secondaryVibeGenres
            descriptors == vibeProfile.descriptors
        IN  /\ vibeProfile.primaryVibeGenre \in SeqToSet(VIBE_GENRES)
            /\ Len(secondaries) <= 3
            /\ Distinct(secondaries)
            /\ \A k \in DOMAIN secondaries :
                  /\ secondaries[k] # vibeProfile.primaryVibeGenre
                  /\ secondaries[k] # Unclassified
            /\ Len(descriptors) <= 7
            /\ \A k \in DOMAIN descriptors : descriptors[k] \in SeqToSet(DESCRIPTORS)
            /\ \A i, j \in DOMAIN descriptors :
                  SubSeq(descriptors[i], 1, 4) = SubSeq(descriptors[j], 1, 4) => i = j

\* A profile with three secondaries and seven descriptors, where a descriptor
\* with a score was passed over because its first four characters were taken.
C7_Witness ==
    /\ pc = "done"
    /\ Len(vibeProfile.secondaryVibeGenres) = 3
    /\ Len(vibeProfile.descriptors) = 7
    /\ \E k \in DOMAIN vibeProfile.debug.descScores :
          LET d == vibeProfile.debug.descScores[k]
          IN  /\ d.score > 0
              /\ d.desc \notin SeqToSet(vibeProfile.descriptors)
              /\ \E i \in DOMAIN vibeProfile.descriptors :
                    /\ SubSeq(vibeProfile.descriptors[i], 1, 4) = SubSeq(d.desc, 1, 4)
                    /\ \A l \in DOMAIN vibeProfile.debug.descScores :
                          vibeProfile.debug.descScores[l].desc = vibeProfile.descriptors[i]
                             => vibeProfile.debug.descScores[l].score >= d.score

(***************************************************************************)
(* Properties of the signal table and of the built-in tests                *)
(***************************************************************************)

PairwiseDisjoint(signal) ==
    /\ signal.core \cap signal.broad = {}
    /\ signal.core \cap signal.boost = {}
    /\ signal.core \cap signal.anti = {}
    /\ signal.broad \cap signal.boost = {}
    /\ signal.broad \cap signal.anti = {}
    /\ signal.boost \cap signal.anti = {}

TrapDrillTags == <<"trap", "drill", "aggressive", "hip hop">>

AmbientSpaceTags == <<"ambient", "space", "cosmic", "ethereal", "atmospheric">>

\* C9.  deriveVibeProfile on trap, drill, aggressive, hip hop has the primary
\* vibe Heat Check, and on ambient, space, cosmic, ethereal, atmospheric the
\* primary vibe Star Fishing.
C9_ScenarioPrimaries ==
    vibeProfile # None =>
        /\ sourceTags = TrapDrillTags => vibeProfile.primaryVibeGenre = "Heat Check"
        /\ sourceTags = AmbientSpaceTags => vibeProfile.primaryVibeGenre = "Star Fishing"

\* deriveVibeProfile has returned Heat Check on the first list, after it had
\* returned on the second, which comes earlier among the built-in tests.
C9_Witness ==
    /\ sourceTags = TrapDrillTags
    /\ vibeProfile # None
    /\ vibeProfile.primaryVibeGenre = "Heat Check"
    /\ \E k \in 1..(idx - 1) : VIBE_TEST_CASES[k].tags = AmbientSpaceTags

\* C10.  runVibeTests counts no failure: for every entry of VIBE_TEST_CASES the
\* expected vibe or an acceptable one is the primary or the first secondary of
\* the profile of the entry's tags; so it is for Heart on Sleeve on the ballad
\* tags.
C10_BuiltInTestsPass ==
    /\ testResults.failed = 0
    /\ testResults.failures = <<>>
    /\ heartOk # "false"
    /\ pc = "tests" /\ idx > 1 =>
          LET tc == VIBE_TEST_CASES[idx - 1]
          IN  /\ sourceTags = tc.tags
              /\ \E v \in {tc.expected} \cup SeqToSet(tc.acceptable) :
                    \/ v = vibeProfile.primaryVibeGenre
                    \/ /\ vibeProfile.secondaryVibeGenres # <<>>
                       /\ v = vibeProfile.secondaryVibeGenres[1]

\* The development start-up has run every built-in test and all have passed.
C10_Witness ==
    /\ pc = "ready"
    /\ nodeEnv = "development"
    /\ heartOk = "true"
    /\ testResults.passed = Len(VIBE_TEST_CASES)
    /\ testResults.failed = 0

(***************************************************************************)
(* The tag normalizer on its own: normalizeTag applied to a string, and    *)
(* applied again to its own result.                                        *)
(***************************************************************************)

\* The longest string drawn from TagAlphabet.
MaxLen == 3

\* A lower-case letter, an upper-case letter, a space, a hyphen, a letter with a
\* diacritic and the ampersand: one character of every class normalizeTag treats
\* differently.
TagAlphabet == <<"a", "B", " ", "-", "é", "&">>

RECURSIVE StringsUpTo(_)
StringsUpTo(n) ==
    IF n = 0 THEN {""}
    ELSE LET shorter == StringsUpTo(n - 1)
         IN  shorter \cup {s \o TagAlphabet[i] :
                              s \in {x \in shorter : Len(x) = n - 1},
                              i \in DOMAIN TagAlphabet}

SynonymKeys == {SYNONYM_MAP[i][1] : i \in DOMAIN SYNONYM_MAP}

SynonymValues == {SYNONYM_MAP[i][2] : i \in DOMAIN SYNONYM_MAP}

\* Spellings of listed tags, and the names every JavaScript object inherits.
SpelledTags ==
    {"Hip-Hop", "R&B", "Rhythm and Blues", " Lo-Fi ", "K-Pop", "Drum & Bass",
     "Singer-Songwriter", "Reggaetón", "constructor", "Constructor", "__proto__", "_"}

TagInputs == StringsUpTo(MaxLen) \cup SynonymKeys \cup SynonymValues \cup SpelledTags

\* tag.toLowerCase() on a value that is not a string.
TypeError == "<TypeError: tag.toLowerCase is not a function>"

InitNormalizer ==
    /\ rawTag \in TagInputs
    /\ normalized = ""
    /\ renormalized = ""
    /\ calls = 0
    /\ IdleOutsideNormalizer

\* part_003:805-815, called on a string.
NormalizeTag ==
    /\ calls = 0
    /\ normalized' = normalizeTag(rawTag)
    /\ calls' = 1
    /\ UNCHANGED <<outsideNormalizer, rawTag, renormalized>>

\* part_003:805-815, called on the result of the first call.  A result that is not
\* a string has no toLowerCase method, and the call throws at line 806.
NormalizeTagAgain ==
    /\ calls = 1
    /\ renormalized' = IF normalized \in NonStringValues THEN TypeError
                       ELSE normalizeTag(normalized)
    /\ calls' = 2
    /\ UNCHANGED <<outsideNormalizer, rawTag, normalized>>

NextNormalizer == NormalizeTag \/ NormalizeTagAgain

SpecNormalizer == InitNormalizer /\ [][NextNormalizer]_vars

\* C11: normalizeTag is total and idempotent: for every string the result is a
\* string, normalizing the result again returns it unchanged, and every value of
\* SYNONYM_MAP is returned as it is.
C11_NormalizeTagTotalAndIdempotent ==
    /\ calls >= 1 => normalized \notin NonStringValues
    /\ calls = 2 => renormalized = normalized
    /\ (calls >= 1 /\ rawTag \in SynonymValues) => normalized = rawTag

(***************************************************************************)
(* Recommendation reranking weights: distance between two tracks' audio    *)
(* features and the sentence that explains a recommendation.               *)
(***************************************************************************)

RatAdd(a, b) == Rat(a.num * b.den + b.num * a.den, a.den * b.den)

RatSub(a, b) == Rat(a.num * b.den - b.num * a.den, a.den * b.den)

RatMul(a, b) == Rat(a.num * b.num, a.den * b.den)

\* Math.abs.
RatAbs(a) == [num |-> Abs(a.num), den |-> a.den]

\* Math.min.
RatMin(a, b) == IF RatLess(b, a) THEN b ELSE a

\* Every dimension weighing the same.
RERANK_WEIGHTS_AllEqual ==
    << <<"danceability", Rat(1, 1)>>, <<"energy", Rat(1, 1)>>, <<"valence", Rat(1, 1)>>,
       <<"acousticness", Rat(1, 1)>>, <<"instrumentalness", Rat(1, 1)>>,
       <<"speechiness", Rat(1, 1)>>, <<"liveness", Rat(1, 1)>>, <<"tempo", Rat(1, 1)>>,
       <<"loudness", Rat(1, 1)>> >>
\* part_001:192-202.  The entries in the order the literal lists them.
RERANK_WEIGHTS ==
    << <<"danceability", Rat(12, 10)>>, <<"energy", Rat(12, 10)>>, <<"valence", Rat(10, 10)>>,
       <<"acousticness", Rat(9, 10)>>, <<"instrumentalness", Rat(6, 10)>>,
       <<"speechiness", Rat(6, 10)>>, <<"liveness", Rat(3, 10)>>, <<"tempo", Rat(8, 10)>>,
       <<"loudness", Rat(3, 10)>> >>

\* part_001:208-218.
FEATURE_DISPLAY_NAMES ==
    [danceability |-> "groove",
     energy |-> "energy level",
     valence |-> "mood",
     acousticness |-> "acoustic feel",
     instrumentalness |-> "instrumental balance",
     speechiness |-> "vocal style",
     liveness |-> "live feel",
     tempo |-> "tempo",
     loudness |-> "loudness"]

\* part_001:231-234.
TEMPO_DIVISOR == 60
LOUDNESS_DIVISOR == 20

\* dimensionDiffs[key] of a record kept as its entries in insertion order.
entryOf(entries, key) ==
    entries[CHOOSE i \in DOMAIN entries : entries[i][1] = key][2]

\* part_001:270-298 without the Math.min of lines 294 and 298.
diffsOfUnclamped(seed, candidate) ==
    << <<"danceability", RatAbs(RatSub(candidate.danceability, seed.danceability))>>,
       <<"energy", RatAbs(RatSub(candidate.energy, seed.energy))>>,
       <<"valence", RatAbs(RatSub(candidate.valence, seed.valence))>>,
       <<"acousticness", RatAbs(RatSub(candidate.acousticness, seed.acousticness))>>,
       <<"instrumentalness",
         RatAbs(RatSub(candidate.instrumentalness, seed.instrumentalness))>>,
       <<"speechiness", RatAbs(RatSub(candidate.speechiness, seed.speechiness))>>,
       <<"liveness", RatAbs(RatSub(candidate.liveness, seed.liveness))>>,
       <<"tempo", RatMul(RatAbs(RatSub(candidate.tempo, seed.tempo)), Rat(1, TEMPO_DIVISOR))>>,
       <<"loudness", RatMul(RatAbs(RatSub(candidate.loudness, seed.loudness)),
                            Rat(1, LOUDNESS_DIVISOR))>> >>
\* part_001:270-298.  The literal fixes the order of the keys; the seven unit
\* dimensions, then tempo and loudness divided and clamped to 1.
diffsOf(seed, candidate) ==
    LET tempoDiff == RatMul(RatAbs(RatSub(candidate.tempo, seed.tempo)), Rat(1, TEMPO_DIVISOR))
        loudnessDiff == RatMul(RatAbs(RatSub(candidate.loudness, seed.loudness)),
                               Rat(1, LOUDNESS_DIVISOR))
    IN  << <<"danceability", RatAbs(RatSub(candidate.danceability, seed.danceability))>>,
           <<"energy", RatAbs(RatSub(candidate.energy, seed.energy))>>,
           <<"valence", RatAbs(RatSub(candidate.valence, seed.valence))>>,
           <<"acousticness", RatAbs(RatSub(candidate.acousticness, seed.acousticness))>>,
           <<"instrumentalness",
             RatAbs(RatSub(candidate.instrumentalness, seed.instrumentalness))>>,
           <<"speechiness", RatAbs(RatSub(candidate.speechiness, seed.speechiness))>>,
           <<"liveness", RatAbs(RatSub(candidate.liveness, seed.liveness))>>,
           <<"tempo", RatMin(tempoDiff, Rat(1, 1))>>,
           <<"loudness", RatMin(loudnessDiff, Rat(1, 1))>> >>

\* part_001:301-305.  The loop over Object.entries(RERANK_WEIGHTS), from entry i on.
RECURSIVE weightedSum(_, _, _)
weightedSum(diffs, i, total) ==
    IF i > Len(RERANK_WEIGHTS) THEN total
    ELSE weightedSum(diffs, i + 1,
                     RatAdd(total, RatMul(RERANK_WEIGHTS[i][2],
                                          entryOf(diffs, RERANK_WEIGHTS[i][1]))))

\* part_001:269-311.
calculateDistance(seed, candidate) ==
    LET diffs == diffsOf(seed, candidate)
    IN  [totalDistance |-> weightedSum(diffs, 1, Rat(0, 1)), dimensionDiffs |-> diffs]

\* The entries in the order given, not sorted.
entriesAsGiven(entries) == entries
\* part_001:323-324.  Array.prototype.sort is stable: entries with equal diffs keep
\* the order Object.entries gave them, the insertion order of the record.
sortByDiff(entries) ==
    LET before(i, j) == \/ RatLess(entries[i][2], entries[j][2])
                        \/ entries[i][2] = entries[j][2] /\ i < j
        rank == [i \in DOMAIN entries |->
                    1 + Cardinality({j \in DOMAIN entries : before(j, i)})]
    IN  [r \in DOMAIN entries |-> entries[CHOOSE i \in DOMAIN entries : rank[i] = r]]

\* part_001:321-333.
generateRecommendationReason(diffs) ==
    LET sortedDimensions == SubSeq(sortByDiff(diffs), 1, 2)
        first == sortedDimensions[1][1]
        second == sortedDimensions[2][1]
        firstName == FEATURE_DISPLAY_NAMES[first]
        secondName == FEATURE_DISPLAY_NAMES[second]
    IN  "Matches closely in " \o firstName \o " and " \o secondName \o "."

\* analysis-lastfm.ts:77-89.
toDistanceFeatures(estimated) ==
    [danceability |-> estimated.danceability,
     energy |-> estimated.energy,
     valence |-> estimated.valence,
     acousticness |-> estimated.acousticness,
     instrumentalness |-> estimated.instrumentalness,
     speechiness |-> estimated.speechiness,
     liveness |-> estimated.liveness,
     tempo |-> estimated.tempo,
     loudness |-> estimated.loudness]

(***************************************************************************)
(* Calls of calculateDistance and generateRecommendationReason: on a seed  *)
(* and a candidate as the reranking loop makes them, and of                *)
(* generateRecommendationReason on a record of its own.                    *)
(***************************************************************************)

\* The most fields in which a candidate differs from the seed.
MaxChanged == 2

\* part_001:17-27 (baseSeed of the unit tests), with the three fields of
\* EstimatedFeatures the distance ignores taken from DEFAULT_FEATURES.
BaseSeed ==
    [DEFAULT_FEATURES EXCEPT
        !.danceability = Rat(7, 10), !.energy = Rat(8, 10), !.valence = Rat(5, 10),
        !.acousticness = Rat(3, 10), !.instrumentalness = Rat(1, 10),
        !.speechiness = Rat(1, 10), !.liveness = Rat(2, 10), !.tempo = Rat(120, 1),
        !.loudness = Rat(-6, 1)]

SeedVectors == {BaseSeed, DEFAULT_FEATURES}

UnitDimensions ==
    {"danceability", "energy", "valence", "acousticness", "instrumentalness", "speechiness",
     "liveness"}

\* Values within the declared range of a field (feature-estimation.ts:305-313):
\* for tempo and loudness, differences below, at and above the divisor.
ValuesOf(field) ==
    IF field \in UnitDimensions THEN {Rat(0, 1), Rat(1, 4), Rat(1, 1)}
    ELSE IF field = "tempo" THEN {Rat(40, 1), Rat(60, 1), Rat(150, 1), Rat(180, 1), Rat(220, 1)}
    ELSE IF field = "loudness" THEN {Rat(-60, 1), Rat(-26, 1), Rat(-16, 1), Rat(0, 1)}
    ELSE IF field = "key" THEN {Rat(5, 1)}
    ELSE IF field = "mode" THEN {Rat(0, 1)}
    ELSE {Rat(3, 1)}

RECURSIVE ChangedUpTo(_, _)
ChangedUpTo(n, base) ==
    IF n = 0 THEN {base}
    ELSE LET fewer == ChangedUpTo(n - 1, base)
         IN  fewer \cup UNION {{[v EXCEPT ![f] = x] : v \in fewer, x \in ValuesOf(f)} :
                                   f \in FeatureNames}

DistanceDimensions == [i \in DOMAIN RERANK_WEIGHTS |-> RERANK_WEIGHTS[i][1]]

\* part_001:101-171.  The records of the unit tests of generateRecommendationReason.
TestDiffs ==
    { << <<"danceability", Rat(5, 100)>>, <<"energy", Rat(1, 10)>>, <<"valence", Rat(3, 10)>>,
         <<"acousticness", Rat(4, 10)>>, <<"instrumentalness", Rat(2, 100)>>,
         <<"speechiness", Rat(5, 10)>>, <<"liveness", Rat(6, 10)>>, <<"tempo", Rat(7, 10)>>,
         <<"loudness", Rat(8, 10)>> >>,
      << <<"danceability", Rat(1, 10)>>, <<"energy", Rat(2, 10)>>, <<"valence", Rat(3, 10)>>,
         <<"acousticness", Rat(4, 10)>>, <<"instrumentalness", Rat(5, 10)>>,
         <<"speechiness", Rat(6, 10)>>, <<"liveness", Rat(7, 10)>>, <<"tempo", Rat(8, 10)>>,
         <<"loudness", Rat(9, 10)>> >>,
      << <<"danceability", Rat(1, 100)>>, <<"energy", Rat(2, 100)>>, <<"valence", Rat(5, 10)>>,
         <<"acousticness", Rat(5, 10)>>, <<"instrumentalness", Rat(5, 10)>>,
         <<"speechiness", Rat(5, 10)>>, <<"liveness", Rat(5, 10)>>, <<"tempo", Rat(5, 10)>>,
         <<"loudness", Rat(5, 10)>> >>,
      << <<"danceability", Rat(1, 10)>>, <<"energy", Rat(1, 10)>>, <<"valence", Rat(1, 10)>>,
         <<"acousticness", Rat(5, 10)>>, <<"instrumentalness", Rat(5, 10)>>,
         <<"speechiness", Rat(5, 10)>>, <<"liveness", Rat(5, 10)>>, <<"tempo", Rat(5, 10)>>,
         <<"loudness", Rat(5, 10)>> >> }

\* The orders in which a record literal may list the nine keys: the order of
\* calculateDistance, and that order reversed.
KeyOrders ==
    {DistanceDimensions,
     [i \in DOMAIN DistanceDimensions |->
         DistanceDimensions[Len(DistanceDimensions) + 1 - i]]}

\* Records of nine diffs, each small or large, listed in either key order.
DiffRecords ==
    TestDiffs \cup
    {[i \in DOMAIN keys |-> <<keys[i], IF keys[i] \in small THEN Rat(1, 10) ELSE Rat(1, 2)>>] :
        keys \in KeyOrders, small \in SUBSET SeqToSet(DistanceDimensions)}

InitDistance ==
    /\ \/ /\ seedFeatures \in SeedVectors
          /\ candidateFeatures \in ChangedUpTo(MaxChanged, seedFeatures)
          /\ dimensionDiffs = <<>>
          /\ distancePc = "distance"
       \/ /\ seedFeatures = None
          /\ candidateFeatures = None
          /\ dimensionDiffs \in DiffRecords
          /\ distancePc = "reason"
    /\ totalDistance = None
    /\ reason = ""
    /\ IdleOutsideDistance

\* analysis-lastfm.ts:286-293.
CalculateDistance ==
    /\ distancePc = "distance"
    /\ LET seedDistanceFeatures == toDistanceFeatures(seedFeatures)
           candidateDistanceFeatures == toDistanceFeatures(candidateFeatures)
           result == calculateDistance(seedDistanceFeatures, candidateDistanceFeatures)
       IN  /\ totalDistance' = result.totalDistance
           /\ dimensionDiffs' = result.dimensionDiffs
    /\ distancePc' = "reason"
    /\ UNCHANGED <<outsideDistance, seedFeatures, candidateFeatures, reason>>

\* analysis-lastfm.ts:294, and the direct calls of part_001:113-173.
GenerateReason ==
    /\ distancePc = "reason"
    /\ reason' = generateRecommendationReason(dimensionDiffs)
    /\ distancePc' = "done"
    /\ UNCHANGED <<outsideDistance, seedFeatures, candidateFeatures, totalDistance,
                   dimensionDiffs>>

NextDistance == CalculateDistance \/ GenerateReason

SpecDistance == InitDistance /\ [][NextDistance]_vars

\* The distance of the current seed and candidate has been computed.
DistanceComputed == distancePc \in {"reason", "done"} /\ seedFeatures # None

\* |candidate - seed| in one field.
GapIn(field) == RatAbs(RatSub(candidateFeatures[field], seedFeatures[field]))

Unit(x) == RatLeq(Rat(0, 1), x) /\ RatLeq(x, Rat(1, 1))

\* C12: each of the seven unit dimensions has diff |candidate - seed|; the tempo
\* diff is min(|tempo gap| / 60, 1) and the loudness diff min(|loudness gap| / 20, 1),
\* so a gap of 60 BPM or more, or of 20 dB or more, gives exactly 1; every diff of
\* vectors within their ranges lies in [0, 1].
C12_DiffsPerDimension ==
    DistanceComputed =>
        LET diffs == dimensionDiffs
            tempoGap == GapIn("tempo")
            loudnessGap == GapIn("loudness")
        IN  /\ Len(diffs) = 9
            /\ \A d \in UnitDimensions : entryOf(diffs, d) = GapIn(d)
            /\ IF RatLeq(Rat(60, 1), tempoGap) THEN entryOf(diffs, "tempo") = Rat(1, 1)
               ELSE RatMul(entryOf(diffs, "tempo"), Rat(60, 1)) = tempoGap
            /\ IF RatLeq(Rat(20, 1), loudnessGap) THEN entryOf(diffs, "loudness") = Rat(1, 1)
               ELSE RatMul(entryOf(diffs, "loudness"), Rat(20, 1)) = loudnessGap
            /\ \A i \in DOMAIN diffs : Unit(diffs[i][2])

\* A candidate exactly 60 BPM away and more than 20 dB away: both diffs are 1.
C12_Witness ==
    /\ DistanceComputed
    /\ GapIn("tempo") = Rat(60, 1)
    /\ RatLess(Rat(20, 1), GapIn("loudness"))
    /\ entryOf(dimensionDiffs, "tempo") = Rat(1, 1)
    /\ entryOf(dimensionDiffs, "loudness") = Rat(1, 1)

\* The weight the documentation states for a dimension, in tenths.
StatedWeight ==
    [danceability |-> 12, energy |-> 12, valence |-> 10, acousticness |-> 9,
     instrumentalness |-> 6, speechiness |-> 6, liveness |-> 3, tempo |-> 8, loudness |-> 3]

\* The nine dimensions in which the candidate differs from the seed.
Differing == {d \in DOMAIN StatedWeight : candidateFeatures[d] # seedFeatures[d]}

\* C13: totalDistance is the sum over exactly the nine dimensions of weight * diff
\* with the static weights; key, mode and time_signature play no part; identical
\* vectors give total 0 with every diff 0; a change in a single dimension gives
\* the total weight * diff of that dimension.
C13_TotalIsWeightedSum ==
    DistanceComputed =>
        LET diffs == dimensionDiffs
            term(d) == RatMul(Rat(StatedWeight[d], 10), entryOf(diffs, d))
            sum == RatAdd(term("danceability"),
                   RatAdd(term("energy"),
                   RatAdd(term("valence"),
                   RatAdd(term("acousticness"),
                   RatAdd(term("instrumentalness"),
                   RatAdd(term("speechiness"),
                   RatAdd(term("liveness"),
                   RatAdd(term("tempo"), term("loudness")))))))))
            differing == Differing
        IN  /\ {diffs[i][1] : i \in DOMAIN diffs} = DOMAIN StatedWeight
            /\ totalDistance = sum
            /\ differing = {} =>
                   /\ totalDistance = Rat(0, 1)
                   /\ \A i \in DOMAIN diffs : diffs[i][2] = Rat(0, 1)
            /\ \A d \in differing : differing = {d} => totalDistance = term(d)

\* A candidate with another key that differs from the seed in one dimension only.
C13_Witness ==
    /\ DistanceComputed
    /\ candidateFeatures.key # seedFeatures.key
    /\ Cardinality(Differing) = 1
    /\ RatLess(Rat(0, 1), totalDistance)

\* The order in which the documentation lists the nine dimensions.
FixedOrder ==
    <<"danceability", "energy", "valence", "acousticness", "instrumentalness", "speechiness",
      "liveness", "tempo", "loudness">>

PositionIn(order, key) == CHOOSE i \in DOMAIN order : order[i] = key

\* The key of entries, outside excluded, with the smallest diff; among equal diffs
\* the one that comes first in order.
ClosestBy(entries, order, excluded) ==
    LET keys == {entries[i][1] : i \in DOMAIN entries} \ excluded
        closer(k, l) == \/ RatLess(entryOf(entries, k), entryOf(entries, l))
                        \/ /\ entryOf(entries, k) = entryOf(entries, l)
                           /\ PositionIn(order, k) < PositionIn(order, l)
    IN  CHOOSE k \in keys : \A l \in keys \ {k} : closer(k, l)

\* The sentence naming the two closest dimensions of entries, ties resolved by order.
SentenceBy(entries, order) ==
    LET x == ClosestBy(entries, order, {})
        y == ClosestBy(entries, order, {x})
    IN  "Matches closely in " \o FEATURE_DISPLAY_NAMES[x] \o " and "
            \o FEATURE_DISPLAY_NAMES[y] \o "."

KeysOf(entries) == [i \in DOMAIN entries |-> entries[i][1]]

RECOMMENDATION_LIMIT == 10

\* String.prototype.charCodeAt for the printable ASCII characters: codes 32 to 95,
\* and codes 97 to 126.
AsciiFromSpace ==
    " !\"#$%&'()*+,-./0123456789:;<=>?@ABCDEFGHIJKLMNOPQRSTUVWXYZ[\\]^_"

AsciiFromLowerA == "abcdefghijklmnopqrstuvwxyz{|}~"

charCodeAt(c) ==
    IF Includes(AsciiFromLowerA, c) THEN 96 + IndexOfChar(AsciiFromLowerA, c)
    ELSE 31 + IndexOfChar(AsciiFromSpace, c)

\* A 32-bit integer as its two 16-bit halves <<high, low>>, since the hash
\* leaves the range of the integers the model checker computes with.
Half == 65536

\* client.ts:65-66.  ((hash << 5) - hash) + char, converted to a 32-bit integer:
\* 31 * hash + char modulo 2^32.
hashStep(hash, char) ==
    LET low == hash[2] * 31 + char
        high == hash[1] * 31 + (low \div Half)
    IN  <<high % Half, low % Half>>

\* client.ts:63-67.  The loop over the characters of normalized, from index i on.
RECURSIVE hashFrom(_, _, _)
hashFrom(s, i, hash) ==
    IF i > Len(s) THEN hash
    ELSE LET next == hashStep(hash, charCodeAt(SubSeq(s, i, i)))
         IN  IF next[1] >= 0 THEN hashFrom(s, i + 1, next) ELSE hash

\* Math.abs of the signed value of the halves, again as two halves.
absInt32(hash) ==
    IF hash[1] < Half \div 2 THEN hash
    ELSE IF hash[2] = 0 THEN <<Half - hash[1], 0>>
    ELSE <<Half - 1 - hash[1], Half - hash[2]>>

Base36Digits == "0123456789abcdefghijklmnopqrstuvwxyz"

\* Number.prototype.toString(36) of a non-negative value given as two halves.
RECURSIVE toString36(_)
toString36(n) ==
    LET high == n[1] \div 36
        rest == (n[1] % 36) * Half + n[2]
        low == rest \div 36
        digit == SubSeq(Base36Digits, (rest % 36) + 1, (rest % 36) + 1)
        quotient == <<high + (low \div Half), low % Half>>
    IN  IF quotient = <<0, 0>> THEN digit ELSE toString36(quotient) \o digit

\* String.prototype.padStart(8, '0').
RECURSIVE padStart8(_)
padStart8(s) == IF Len(s) >= 8 THEN s ELSE padStart8("0" \o s)

\* client.ts:59-69.
generateTrackId(name, artist) ==
    LET normalizedKey == trim(toLowerCase(name)) \o "-" \o trim(toLowerCase(artist))
    IN  padStart8(toString36(absInt32(hashFrom(normalizedKey, 1, <<0, 0>>))))

\* analysis-lastfm.ts:279-305.  One entry of rankedCandidates per candidate, in the
\* order of the candidates.
rankedCandidatesOf(seedEstimated, tracks) ==
    ArrayOf([i \in DOMAIN tracks |->
        LET result == calculateDistance(toDistanceFeatures(seedEstimated),
                                        toDistanceFeatures(tracks[i].estimatedFeatures))
        IN  [track |-> tracks[i],
             distance |-> result.totalDistance,
             reason |-> generateRecommendationReason(result.dimensionDiffs)]])

\* The ranked candidates left in the order they were pushed.
rankedAsFetched(ranked) == ranked
\* A sort by distance that puts the later of two candidates at equal distance first.
sortByDistanceLaterFirst(ranked) ==
    LET before(i, j) == \/ RatLess(ranked[i].distance, ranked[j].distance)
                        \/ ranked[i].distance = ranked[j].distance /\ i > j
        rank == ArrayOf([i \in DOMAIN ranked |->
                    1 + Cardinality({j \in DOMAIN ranked : before(j, i)})])
    IN  ArrayOf([r \in DOMAIN ranked |-> ranked[CHOOSE i \in DOMAIN ranked : rank[i] = r]])
\* analysis-lastfm.ts:308.  rankedCandidates.sort((a, b) => a.distance - b.distance):
\* the sort is stable, candidates at equal distance keep the order they were pushed.
sortByDistance(ranked) ==
    LET before(i, j) == \/ RatLess(ranked[i].distance, ranked[j].distance)
                        \/ ranked[i].distance = ranked[j].distance /\ i < j
        rank == ArrayOf([i \in DOMAIN ranked |->
                    1 + Cardinality({j \in DOMAIN ranked : before(j, i)})])
    IN  ArrayOf([r \in DOMAIN ranked |-> ranked[CHOOSE i \in DOMAIN ranked : rank[i] = r]])

\* Array.prototype.slice(0, n).
sliceTo(xs, n) == SubSeq(xs, 1, IF Len(xs) < n THEN Len(xs) ELSE n)

\* analysis-lastfm.ts:295-316 and 173-211.  Sort, take the top N, convert to the
\* response format; the fallback puts prefix before each reason.
rerank(seedEstimated, tracks, prefix) ==
    LET topCandidates ==
            sliceTo(sortByDistance(rankedCandidatesOf(seedEstimated, tracks)),
                    RECOMMENDATION_LIMIT)
    IN  ArrayOf([i \in DOMAIN topCandidates |->
            [id |-> topCandidates[i].track.id,
             name |-> topCandidates[i].track.name,
             artists |-> <<topCandidates[i].track.artist>>,
             reason |-> prefix \o topCandidates[i].reason]])

\* Last.fm's own order, the whole list.
byMatchScoreUnsliced(similar) ==
    ArrayOf([i \in DOMAIN similar |->
        [id |-> similar[i].id,
         name |-> similar[i].name,
         artists |-> <<similar[i].artist>>,
         reason |-> "Similar artist and style based on listener patterns."]])

\* analysis-lastfm.ts:267-276.  No candidate has features: Last.fm's own order.
byMatchScore(similar) ==
    LET top == sliceTo(similar, RECOMMENDATION_LIMIT)
    IN  ArrayOf([i \in DOMAIN top |->
            [id |-> top[i].id,
             name |-> top[i].name,
             artists |-> <<top[i].artist>>,
             reason |-> "Similar artist and style based on listener patterns."]])

\* analysis-lastfm.ts:259-262 and 156-164.  The catch blocks around the
\* per-candidate and per-artist requests: the error is dropped, the loop goes on.
rethrown(error) == "throw"
caught(error) == "continue"

(***************************************************************************)
(* What Last.fm holds: a catalogue of tracks with their tags, the artists   *)
(* and their top tracks.                                                   *)
(***************************************************************************)

\* The longest list track.getSimilar answers with.
MaxSimilar == 22

\* How many of the first tracks of the catalogue may have no track info.
MaxFlaky == 3

Digits == "0123456789"

TwoDigits(k) == SubSeq(Digits, (k \div 10) + 1, (k \div 10) + 1)
                    \o SubSeq(Digits, (k % 10) + 1, (k % 10) + 1)

ArtistNames == <<"Artist A", "Artist B", "Artist C", "Artist D", "Artist E">>

\* Track k of the catalogue: five tracks per artist.
CatalogueTrack(k) ==
    [name |-> "Song " \o TwoDigits(k),
     artist |-> ArtistNames[(((k - 1) \div 5) % Len(ArtistNames)) + 1]]

\* The top tags Last.fm lists for the tracks, in turn: many tracks share their tags.
TagChoices ==
    << <<"trap">>, <<"chill">>, <<>>, <<"edm">>, <<"lofi", "dark">>, <<"hip hop">> >>

\* Last.fm finds a track whatever the case and outer blanks of its name
\* (autocorrect: '1', client.ts:179).
CatalogueNumber(name) ==
    CHOOSE k \in 1..99 :
        toLowerCase(CatalogueTrack(k).name) = trim(toLowerCase(name))

\* track.getInfo fails for the track of this name.
hasNoInfo(answers, name) == CatalogueTrack(CatalogueNumber(name)).name \in answers.noInfo

\* trackInfo.toptags?.tag?.map(t => t.name) || [] for a track of the catalogue.
TopTagsOf(name) == TagChoices[(CatalogueNumber(name) % Len(TagChoices)) + 1]

SeedTrackName == "Seed Song"

\* artist.getTopTracks: five tracks of the artist; the second artist's list also
\* repeats a track of the first, in another spelling, and holds a track with the
\* name of the seed track.
TopTracksOf(artistName) ==
    LET j == CHOOSE i \in DOMAIN ArtistNames : ArtistNames[i] = artistName
        own == ArrayOf([i \in 1..5 |-> CatalogueTrack(5 * (j - 1) + i)])
    IN  IF j = 2
        THEN <<[name |-> "SONG 01 ", artist |-> ArtistNames[1]],
               [name |-> "seed song", artist |-> ArtistNames[2]]>> \o SubSeq(own, 1, 3)
        ELSE own

\* track.getSimilar: nothing, the first tracks of the catalogue in either order,
\* two tracks only, or a list longer than the 20 the loop looks at.
SimilarLists ==
    LET firstTracks(n) == ArrayOf([k \in 1..n |-> CatalogueTrack(k)])
        reversed(xs) == ArrayOf([i \in DOMAIN xs |-> xs[Len(xs) + 1 - i]])
    IN  {<<>>, firstTracks(2), firstTracks(12), reversed(firstTracks(12)),
         firstTracks(MaxSimilar)}

\* artist.getSimilar with limit 5.
ArtistLists ==
    {<<>>, <<"Artist A", "Artist B">>,
     <<"Artist A", "Artist B", "Artist C", "Artist D", "Artist E">>,
     <<"Artist A", "Artist C", "Artist D", "Artist E", "Artist B">>}

FlakyTracks == {CatalogueTrack(k).name : k \in 1..MaxFlaky}

\* What Last.fm answers during one call: the similar tracks, the similar artists,
\* whether either request fails outright (similarCode is the error code of the
\* failure: 6 is 'not found', 8 'operation failed'), and the artists and
\* tracks whose own request fails.
LastFmAnswers ==
    {[similar |-> <<>>, similarFails |-> TRUE, similarCode |-> 8, artists |-> <<>>,
      artistsFail |-> FALSE, noTopTracks |-> {}, noInfo |-> {}],
     [similar |-> <<>>, similarFails |-> FALSE, similarCode |-> 0, artists |-> <<>>,
      artistsFail |-> TRUE, noTopTracks |-> {}, noInfo |-> {}],
     [similar |-> ArrayOf([k \in 1..12 |-> CatalogueTrack(k)]), similarFails |-> FALSE,
      similarCode |-> 0, artists |-> <<>>, artistsFail |-> FALSE, noTopTracks |-> {},
      noInfo |-> {CatalogueTrack(k).name : k \in 1..12}]}
    \cup
    [similar : {<<>>}, similarFails : {TRUE}, similarCode : {6}, artists : ArtistLists,
     artistsFail : {FALSE}, noTopTracks : {{}}, noInfo : {{}}]
    \cup
    [similar : SimilarLists \ {<<>>}, similarFails : {FALSE}, similarCode : {0},
     artists : {<<>>}, artistsFail : {FALSE}, noTopTracks : {{}},
     noInfo : SUBSET FlakyTracks]
    \cup
    [similar : {<<>>}, similarFails : {FALSE}, similarCode : {0}, artists : ArtistLists,
     artistsFail : {FALSE}, noTopTracks : SUBSET {"Artist A", "Artist C"},
     noInfo : SUBSET FlakyTracks]

\* analysis-lastfm.ts:369.  The seed's features, estimated from its tags.
SeedTags == <<"chill">>

InitRanking ==
    /\ lastfm \in LastFmAnswers
    /\ seedFeatures = estimateFeaturesFromTags(SeedTags)
    /\ seedTrackName = SeedTrackName
    /\ similarTracks = <<>>
    /\ similarArtists = <<>>
    /\ topTracks = <<>>
    /\ cursor = 0
    /\ trackCursor = 0
    /\ candidateTracks = <<>>
    /\ seenTrackIds = {}
    /\ recommendations = None
    /\ rankPc = "similar"
    /\ IdleOutsideRanking

\* client.ts:192-214.  track.getSimilar: the tracks of the response; an error
\* with code 6 is answered with the empty list, any other error is thrown on.
similarTracksOrThrow(answers) ==
    IF ~answers.similarFails THEN [threw |-> FALSE, tracks |-> answers.similar]
    ELSE IF answers.similarCode = 6 THEN [threw |-> FALSE, tracks |-> <<>>]
    ELSE [threw |-> TRUE, tracks |-> <<>>]

\* analysis-lastfm.ts:224-233 with client.ts:333-349.  The request for similar
\* tracks; an error other than code 6 leaves the function.
GetSimilarTracks ==
    /\ rankPc = "similar"
    /\ LET answer == similarTracksOrThrow(lastfm)
       IN  IF answer.threw
           THEN /\ rankPc' = "threw"
                /\ UNCHANGED <<similarTracks, cursor>>
           ELSE /\ similarTracks' =
                        ArrayOf([i \in DOMAIN answer.tracks |->
                            [id |-> generateTrackId(answer.tracks[i].name,
                                                    answer.tracks[i].artist),
                             name |-> answer.tracks[i].name,
                             artist |-> answer.tracks[i].artist]])
                /\ cursor' = 1
                /\ rankPc' = IF Len(answer.tracks) = 0 THEN "artists" ELSE "info"
    /\ UNCHANGED <<outsideRanking, lastfm, seedTrackName, similarArtists, topTracks,
                   trackCursor, candidateTracks, seenTrackIds, recommendations>>

\* analysis-lastfm.ts:238-263.  One iteration of the loop over
\* similarTracks.slice(0, 20).
GetTrackInfo ==
    /\ rankPc = "info"
    /\ cursor <= Len(sliceTo(similarTracks, 20))
    /\ LET track == similarTracks[cursor]
       IN  IF hasNoInfo(lastfm, track.name)
           THEN IF caught("Track not found") = "continue"
                THEN /\ cursor' = cursor + 1
                     /\ UNCHANGED <<candidateTracks, rankPc>>
                ELSE /\ rankPc' = "threw"
                     /\ UNCHANGED <<candidateTracks, cursor>>
           ELSE /\ candidateTracks' =
                        Append(candidateTracks,
                               [id |-> track.id,
                                name |-> track.name,
                                artist |-> track.artist,
                                estimatedFeatures |->
                                    estimateFeaturesFromTags(TopTagsOf(track.name))])
                /\ cursor' = cursor + 1
                /\ UNCHANGED rankPc
    /\ UNCHANGED <<outsideRanking, lastfm, seedTrackName, similarTracks, similarArtists,
                   topTracks, trackCursor, seenTrackIds, recommendations>>

\* analysis-lastfm.ts:265-316.  After the loop: Last.fm's order if no candidate
\* has features, the reranked candidates otherwise.
RankSimilar ==
    /\ rankPc = "info"
    /\ cursor > Len(sliceTo(similarTracks, 20))
    /\ recommendations' =
            IF Len(candidateTracks) = 0 THEN byMatchScore(similarTracks)
            ELSE rerank(seedFeatures, candidateTracks, "")
    /\ rankPc' = "done"
    /\ UNCHANGED <<outsideRanking, lastfm, seedTrackName, similarTracks, similarArtists,
                   topTracks, cursor, trackCursor, candidateTracks, seenTrackIds>>

\* analysis-lastfm.ts:110-116 with client.ts:236-256.
GetSimilarArtists ==
    /\ rankPc = "artists"
    /\ IF lastfm.artistsFail
       THEN /\ rankPc' = "threw"
            /\ UNCHANGED <<similarArtists, recommendations, cursor>>
       ELSE /\ similarArtists' = lastfm.artists
            /\ cursor' = 1
            /\ IF Len(lastfm.artists) = 0
               THEN recommendations' = <<>> /\ rankPc' = "done"
               ELSE rankPc' = "topTracks" /\ UNCHANGED recommendations
    /\ UNCHANGED <<outsideRanking, lastfm, seedTrackName, similarTracks, topTracks,
                   trackCursor, candidateTracks, seenTrackIds>>

\* analysis-lastfm.ts:122-124 and 161-164.  The request for one artist's top
\* tracks; on an error the loop goes to the next artist.
GetArtistTopTracks ==
    /\ rankPc = "topTracks"
    /\ cursor <= Len(similarArtists)
    /\ IF similarArtists[cursor] \in lastfm.noTopTracks
       THEN IF caught("Last.fm API error") = "continue"
            THEN /\ cursor' = cursor + 1
                 /\ UNCHANGED <<topTracks, trackCursor, rankPc>>
            ELSE /\ rankPc' = "threw"
                 /\ UNCHANGED <<topTracks, trackCursor, cursor>>
       ELSE /\ topTracks' = TopTracksOf(similarArtists[cursor])
            /\ trackCursor' = 1
            /\ rankPc' = "artistTracks"
            /\ UNCHANGED cursor
    /\ UNCHANGED <<outsideRanking, lastfm, seedTrackName, similarTracks, similarArtists,
                   candidateTracks, seenTrackIds, recommendations>>

\* analysis-lastfm.ts:126-160.  One iteration of the loop over topTracks.
NextTopTrack ==
    /\ rankPc = "artistTracks"
    /\ trackCursor <= Len(topTracks)
    /\ LET track == topTracks[trackCursor]
           trackId == generateTrackId(track.name, track.artist)
       IN  IF trackId \in seenTrackIds
           THEN UNCHANGED <<seenTrackIds, candidateTracks, rankPc>>
           ELSE IF toLowerCase(track.name) = toLowerCase(seedTrackName)
           THEN UNCHANGED <<seenTrackIds, candidateTracks, rankPc>>
           ELSE /\ seenTrackIds' = seenTrackIds \cup {trackId}
                /\ IF hasNoInfo(lastfm, track.name)
                   THEN IF caught("Track not found") = "continue"
                        THEN UNCHANGED <<candidateTracks, rankPc>>
                        ELSE rankPc' = "threw" /\ UNCHANGED candidateTracks
                   ELSE /\ candidateTracks' =
                                Append(candidateTracks,
                                       [id |-> trackId,
                                        name |-> track.name,
                                        artist |-> track.artist,
                                        estimatedFeatures |->
                                            estimateFeaturesFromTags(TopTagsOf(track.name))])
                        /\ UNCHANGED rankPc
    /\ trackCursor' = trackCursor + 1
    /\ UNCHANGED <<outsideRanking, lastfm, seedTrackName, similarTracks, similarArtists,
                   topTracks, cursor, recommendations>>

\* analysis-lastfm.ts:166-167.  After an artist's tracks: stop at 20 candidates.
ArtistDone ==
    /\ rankPc = "artistTracks"
    /\ trackCursor > Len(topTracks)
    /\ IF Len(candidateTracks) >= 20
       THEN cursor' = Len(similarArtists) + 1
       ELSE cursor' = cursor + 1
    /\ rankPc' = "topTracks"
    /\ UNCHANGED <<outsideRanking, lastfm, seedTrackName, similarTracks, similarArtists,
                   topTracks, trackCursor, candidateTracks, seenTrackIds, recommendations>>

\* analysis-lastfm.ts:170-211.  After the loop over the artists.
RankFallback ==
    /\ rankPc = "topTracks"
    /\ cursor > Len(similarArtists)
    /\ recommendations' =
            IF Len(candidateTracks) = 0 THEN <<>>
            ELSE rerank(seedFeatures, candidateTracks, "From similar artist. ")
    /\ rankPc' = "done"
    /\ UNCHANGED <<outsideRanking, lastfm, seedTrackName, similarTracks, similarArtists,
                   topTracks, cursor, trackCursor, candidateTracks, seenTrackIds>>

NextRanking ==
    \/ GetSimilarTracks
    \/ GetTrackInfo
    \/ RankSimilar
    \/ GetSimilarArtists
    \/ GetArtistTopTracks
    \/ NextTopTrack
    \/ ArtistDone
    \/ RankFallback

SpecRanking == InitRanking /\ [][NextRanking]_vars

\* The call has returned a list ranked by distance.
RankedByDistance == rankPc = "done" /\ Len(candidateTracks) > 0

\* The total distance of each candidate to the seed, in the order of the candidates.
DistancesOf(seedEstimated, tracks) ==
    ArrayOf([i \in DOMAIN tracks |->
        calculateDistance(toDistanceFeatures(seedEstimated),
                          toDistanceFeatures(tracks[i].estimatedFeatures)).totalDistance])

\* The index among tracks of the candidate with this id.
CandidateWithId(tracks, id) == CHOOSE i \in DOMAIN tracks : tracks[i].id = id

\* C15: a list produced by distance ranking, on the similar-tracks path and on the
\* similar-artists path, has at most 10 entries, is in non-decreasing order of total
\* distance to the seed, and every ranked candidate left out is at least as far
\* from the seed as every candidate retained.
C15_TopTenByDistance ==
    RankedByDistance =>
        LET tracks == candidateTracks
            returned == recommendations
            distance == DistancesOf(seedFeatures, tracks)
            retained == ArrayOf([i \in DOMAIN returned |->
                                    CandidateWithId(tracks, returned[i].id)])
            leftOut == DOMAIN tracks \ SeqToSet(retained)
        IN  /\ Len(returned) <= 10
            /\ \A i \in DOMAIN returned : \E j \in DOMAIN tracks : tracks[j].id = returned[i].id
            /\ \A i, j \in DOMAIN returned :
                   i < j => RatLeq(distance[retained[i]], distance[retained[j]])
            /\ \A l \in leftOut : \A i \in DOMAIN returned :
                   RatLeq(distance[retained[i]], distance[l])

\* More than 10 candidates ranked, from the top tracks of similar artists, with a
\* candidate left out that is farther from the seed than the first one returned.
C15_Witness ==
    /\ RankedByDistance
    /\ Len(similarArtists) > 0
    /\ Len(candidateTracks) > 10
    /\ Len(recommendations) = 10
    /\ LET distance == DistancesOf(seedFeatures, candidateTracks)
           first == CandidateWithId(candidateTracks, recommendations[1].id)
       IN  \E l \in DOMAIN candidateTracks : RatLess(distance[first], distance[l])

\* The same candidates fetched in another order: the order reversed, and the first
\* candidate moved to the end.
Reorderings(tracks) ==
    {ArrayOf([i \in DOMAIN tracks |-> tracks[Len(tracks) + 1 - i]]),
     ArrayOf([i \in DOMAIN tracks |-> tracks[(i % Len(tracks)) + 1]])}

IdsOf(returned) == ArrayOf([i \in DOMAIN returned |-> returned[i].id])

\* C16 as stated: the returned list depends only on the set of candidates and the
\* seed; for any other order of the same candidates the ranked list holds the same
\* tracks at the same positions.
C16_SameListInAnyFetchOrder ==
    RankedByDistance =>
        \A reordered \in Reorderings(candidateTracks) :
            IdsOf(rerank(seedFeatures, reordered, "")) = IdsOf(recommendations)

\* C16, amended: for any other order of the same candidates the ranked list has the
\* same total distances at the same positions, and a candidate whose total distance
\* no other candidate shares is at the same position; candidates at equal total
\* distance are ranked in the order in which they were fetched.
C16_FetchOrderOnlyBreaksTies ==
    RankedByDistance =>
        LET tracks == candidateTracks
            returned == recommendations
            distance == DistancesOf(seedFeatures, tracks)
            retained == ArrayOf([i \in DOMAIN returned |->
                                    CandidateWithId(tracks, returned[i].id)])
            shared(i) == \E j \in DOMAIN tracks : j # i /\ distance[j] = distance[i]
        IN  /\ \A i, j \in DOMAIN returned :
                   (i < j /\ distance[retained[i]] = distance[retained[j]])
                       => retained[i] < retained[j]
            /\ \A reordered \in Reorderings(tracks) :
                   LET other == rerank(seedFeatures, reordered, "")
                   IN  /\ Len(other) = Len(returned)
                       /\ \A i \in DOMAIN returned :
                              /\ distance[CandidateWithId(tracks, other[i].id)]
                                     = distance[retained[i]]
                              /\ ~shared(retained[i]) => other[i].id = returned[i].id

\* Candidates at equal distance, fetched in reverse order, come back in another
\* order, while a candidate at a distance of its own keeps its position.
C16_Witness ==
    /\ RankedByDistance
    /\ LET tracks == candidateTracks
           distance == DistancesOf(seedFeatures, tracks)
           reversed == ArrayOf([i \in DOMAIN tracks |-> tracks[Len(tracks) + 1 - i]])
       IN  /\ IdsOf(rerank(seedFeatures, reversed, "")) # IdsOf(recommendations)
           /\ \E i \in DOMAIN recommendations :
                  \A j \in DOMAIN tracks :
                      tracks[j].id # recommendations[i].id
                          => distance[j] # distance[CandidateWithId(tracks, recommendations[i].id)]

\* The requests for the similar tracks and the similar artists, which are not
\* per-candidate requests, did not fail.
ListsAnswered == ~lastfm.similarFails /\ ~lastfm.artistsFail

\* The tracks of the fallback whose track info was asked for and given.
FallbackSucceeded ==
    UNION {{t \in SeqToSet(TopTracksOf(a)) :
               /\ toLowerCase(t.name) # toLowerCase(seedTrackName)
               /\ ~hasNoInfo(lastfm, t.name)} :
           a \in SeqToSet(similarArtists) \ lastfm.noTopTracks}

\* Every candidate whose request succeeded is among the ranked candidates, and no
\* error has left the call.
SucceededAreRanked ==
    /\ rankPc # "threw"
    /\ (rankPc = "done" /\ Len(similarTracks) > 0) =>
           LET looked == sliceTo(similarTracks, 20)
               succeeded == SelectSeq(looked, LAMBDA t : ~hasNoInfo(lastfm, t.name))
           IN  /\ IdsOf(candidateTracks) = IdsOf(succeeded)
               /\ Len(succeeded) > 0 =>
                      /\ Len(recommendations) = Len(sliceTo(succeeded, 10))
                      /\ \A i \in DOMAIN recommendations :
                             \E j \in DOMAIN succeeded :
                                 succeeded[j].id = recommendations[i].id
    /\ (rankPc = "done" /\ Len(similarTracks) = 0) =>
           LET succeeded == FallbackSucceeded
           IN  /\ \A id \in seenTrackIds :
                      (\E t \in succeeded : generateTrackId(t.name, t.artist) = id)
                          <=> (\E j \in DOMAIN candidateTracks : candidateTracks[j].id = id)
               /\ Len(candidateTracks) < 20 =>
                      \A t \in succeeded :
                          \E j \in DOMAIN candidateTracks :
                              candidateTracks[j].id = generateTrackId(t.name, t.artist)
               /\ Len(recommendations) = Len(sliceTo(candidateTracks, 10))

\* A bound on the steps the call has still to take: every step lowers it, so the
\* call cannot go round for ever.
Remaining ==
    IF rankPc = "similar" THEN 200
    ELSE IF rankPc = "info" THEN 2 + Len(sliceTo(similarTracks, 20)) - cursor
    ELSE IF rankPc = "artists" THEN 100
    ELSE IF rankPc = "topTracks" THEN 8 * (Len(similarArtists) + 1 - cursor) + 1
    ELSE IF rankPc = "artistTracks"
    THEN 8 * (Len(similarArtists) + 1 - cursor) + 1 - trackCursor
    ELSE 0

\* C17: a failed per-candidate request only removes that candidate.  Whatever
\* tracks have no track info, and in the fallback whatever artists have no top
\* tracks, the call goes on to its end without an error, and every candidate whose
\* request succeeded is among the ranked candidates.
C17_FailedFetchOnlyDropsCandidate ==
    /\ [](ListsAnswered => SucceededAreRanked)
    /\ [][Remaining' < Remaining]_vars

\* The fallback ended with recommendations although one artist's top tracks and
\* one track's info could not be fetched.
C17_Witness ==
    /\ ListsAnswered
    /\ rankPc = "done"
    /\ \E a \in SeqToSet(similarArtists) : a \in lastfm.noTopTracks
    /\ \E id \in seenTrackIds : \A j \in DOMAIN candidateTracks : candidateTracks[j].id # id
    /\ Len(recommendations) > 0

(***************************************************************************)
(* The route handlers POST /api/analyze and GET /api/track/[id], with the  *)
(* Last.fm client calls the analysis makes and the trackAnalysisCache      *)
(* table.  A handler runs as one step at the time of the clock; the clock  *)
(* counts days.  What Last.fm answers to a call, and which database call   *)
(* fails, are inputs of the request.                                       *)
(***************************************************************************)

\* part_009:69, expiresAt.setDate(expiresAt.getDate() + 30).
ExpiryDays == 30

\* The last day the clock reaches.
MaxDay == 30

\* A call that returned, and a call that threw.
Return(value) == [threw |-> FALSE, value |-> value]

Throw(error) == [threw |-> TRUE, error |-> error]

\* client.ts:29-38.  errorCode is 0 where the constructor is not given one.
LastFmApiError(message, statusCode, errorCode) ==
    [name |-> "LastFmApiError", message |-> message, statusCode |-> statusCode,
     errorCode |-> errorCode]

\* An error of a built-in class: Error, SyntaxError, URIError, or ZodError.
ErrorOf(name, message) ==
    [name |-> name, message |-> message, statusCode |-> 0, errorCode |-> 0]

\* What the HTTP request to Last.fm came back with: the response status, and
\* the JSON document with its error code (0 when it has none) and its payload.
HttpAnswer(ok, status, statusText, error, message, payload) ==
    [ok |-> ok, status |-> status, statusText |-> statusText, error |-> error,
     message |-> message, payload |-> payload]

Found(payload) == HttpAnswer(TRUE, 200, "OK", 0, "", payload)

Http404 == HttpAnswer(FALSE, 404, "Not Found", 0, "", <<>>)

Http503 == HttpAnswer(FALSE, 503, "Service Unavailable", 0, "", <<>>)

ErrorCode6 == HttpAnswer(TRUE, 200, "OK", 6, "Track not found", <<>>)

\* client.ts:108-140.
lastfmRequest(answer) ==
    IF ~answer.ok
    THEN Throw(LastFmApiError("Last.fm API error: " \o answer.statusText, answer.status, 0))
    ELSE IF answer.error # 0
    THEN Throw(LastFmApiError(IF answer.message # "" THEN answer.message
                              ELSE "Unknown Last.fm API error",
                              400, answer.error))
    ELSE Return(answer.payload)

\* client.ts:149-166.  The payload is response.results.trackmatches.track.
searchTracks(answer) == lastfmRequest(answer)

\* client.ts:171-187.  The payload holds the track of the response, or nothing.
getTrackInfo(answer) ==
    LET answered == lastfmRequest(answer)
    IN  IF answered.threw THEN answered
        ELSE IF answered.value = <<>>
        THEN Throw(LastFmApiError("Track not found", 404, 0))
        ELSE Return(answered.value[1])

\* client.ts:192-214.  Error code 6 gives an empty list, any other error is rethrown.
getSimilarTracks(answer) ==
    LET answered == lastfmRequest(answer)
    IN  IF answered.threw /\ answered.error.name = "LastFmApiError"
                          /\ answered.error.errorCode = 6
        THEN Return(<<>>)
        ELSE answered

\* analysis-lastfm.ts:361-430 with client.ts:290-328.  The analysis of the track
\* Last.fm knows under the given names; the recommendations stand for the part
\* of the response that is fetched anew at every analysis.  The calls made are
\* returned with the outcome.
analyzeTrackByName(trackName, artistName, answers) ==
    LET info == getTrackInfo(answers.info)
        infoCall == <<[method |-> "track.getInfo", answer |-> answers.info]>>
        similar == getSimilarTracks(answers.similar)
        similarCall == <<[method |-> "track.getSimilar", answer |-> answers.similar]>>
    IN  IF info.threw THEN [outcome |-> info, calls |-> infoCall]
        ELSE IF similar.threw THEN [outcome |-> similar, calls |-> infoCall \o similarCall]
        ELSE [outcome |-> Return([track |-> [name |-> info.value.name,
                                             artist |-> info.value.artist],
                                  recommendations |-> similar.value]),
              calls |-> infoCall \o similarCall]

\* analysis-lastfm.ts:435-450.  No artist, or an empty one: the top search result
\* is analysed.
analyzeTrack(trackName, artistName, answers) ==
    IF artistName = ""
    THEN LET results == searchTracks(answers.search)
             searchCall == <<[method |-> "track.search", answer |-> answers.search]>>
         IN  IF results.threw THEN [outcome |-> results, calls |-> searchCall]
             ELSE IF Len(results.value) = 0
             THEN [outcome |-> Throw(ErrorOf("Error",
                       "Track not found. Please provide both song name and artist.")),
                   calls |-> searchCall]
             ELSE LET analysis == analyzeTrackByName(results.value[1].name,
                                                     results.value[1].artist, answers)
                  IN  [outcome |-> analysis.outcome, calls |-> searchCall \o analysis.calls]
    ELSE analyzeTrackByName(trackName, artistName, answers)

\* part_005:16-20.
normalizeTrackKey(artistName, trackName) ==
    trim(toLowerCase(artistName)) \o "::" \o trim(toLowerCase(trackName))

\* validation: analyzeRequestSchema.parse, with request.json() before it.  The
\* body is what the request carried: text that is not JSON, or an object with a
\* track and perhaps an artist.
parseBody(body) ==
    IF "malformed" \in DOMAIN body
    THEN Throw(ErrorOf("SyntaxError", "Unexpected end of JSON input"))
    ELSE IF Len(body.track) < 1
    THEN Throw(ErrorOf("ZodError", "track: Track name is required"))
    ELSE IF Len(body.track) > 200
    THEN Throw(ErrorOf("ZodError", "track: Track name too long"))
    ELSE IF "artist" \in DOMAIN body /\ Len(body.artist) > 200
    THEN Throw(ErrorOf("ZodError", "artist: Artist name too long"))
    ELSE Return(body)

\* validated.artist as JavaScript reads it in a condition: "" where it is
\* undefined or empty.
artistOf(validated) == IF "artist" \in DOMAIN validated THEN validated.artist ELSE ""

\* validated.artist || 'Unknown Artist'.
artistOrUnknown(validated) ==
    IF artistOf(validated) = "" THEN "Unknown Artist" ELSE artistOf(validated)

\* part_009:131-132, what the catch block of POST logs.
errorLogged(error) ==
    IF error.name \in {"ZodError", "LastFmApiError", "SyntaxError"} THEN <<>>
    ELSE <<"Unexpected error in /api/analyze:">>

\* part_009:97-139, the catch block of POST.
errorResponse(error) ==
    IF error.name = "ZodError"
    THEN [status |-> 400, body |-> [error |-> "Validation error", details |-> error.message]]
    ELSE IF error.name = "LastFmApiError"
    THEN IF error.statusCode = 404 \/ error.errorCode = 6
         THEN [status |-> 404,
               body |-> [error |-> "Track not found. Please check the song name and artist."]]
         ELSE [status |-> error.statusCode, body |-> [error |-> error.message]]
    ELSE IF error.name = "SyntaxError"
    THEN [status |-> 400, body |-> [error |-> "Invalid JSON in request body"]]
    ELSE [status |-> 500, body |-> [error |-> "An unexpected error occurred. Please try again."]]

\* db.trackAnalysisCache.findUnique({ where: { trackKey } }): the rows found.
findUnique(table, trackKey) == {row \in table : row.trackKey = trackKey}

\* A comparison that takes an entry for fresh on the day it expires.
notYetPast(expiresAt, today) == expiresAt >= today

\* part_009:48, cachedAnalysis.expiresAt > new Date().
inFuture(expiresAt, today) == expiresAt > today

\* part_009:71-87, db.trackAnalysisCache.upsert: the row of the key is replaced
\* by one with the new analysis and expiry, or created.  The columns no handler
\* reads back (trackName, artistName, externalUrl, updatedAt) are left out;
\* lastAccessedAt is kept, a new row has it at the time of its creation.
upsert(table, trackKey, created) ==
    IF findUnique(table, trackKey) = {}
    THEN table \cup {created}
    ELSE {IF row.trackKey = trackKey
          THEN [row EXCEPT !.analysisJson = created.analysisJson,
                           !.expiresAt = created.expiresAt,
                           !.lastAccessedAt = created.lastAccessedAt]
          ELSE row : row \in table}

\* db.trackAnalysisCache.update of lastAccessedAt.
touch(table, trackKey, today) ==
    {IF row.trackKey = trackKey THEN [row EXCEPT !.lastAccessedAt = today] ELSE row :
        row \in table}

\* decodeURIComponent over the escapes the keys need; a lone % is a URIError.
RECURSIVE decodeFrom(_, _, _)
decodeFrom(s, i, decoded) ==
    IF i > Len(s) THEN Return(decoded)
    ELSE IF SubSeq(s, i, i) # "%" THEN decodeFrom(s, i + 1, decoded \o SubSeq(s, i, i))
    ELSE IF i + 2 <= Len(s) /\ SubSeq(s, i, i + 2) = "%3A" THEN decodeFrom(s, i + 3, decoded \o ":")
    ELSE IF i + 2 <= Len(s) /\ SubSeq(s, i, i + 2) = "%20" THEN decodeFrom(s, i + 3, decoded \o " ")
    ELSE Throw(ErrorOf("URIError", "URI malformed"))

decodeURIComponent(s) == decodeFrom(s, 1, "")

(***************************************************************************)
(* The requests and answers of the specification.                          *)
(***************************************************************************)

Bodies ==
    {[malformed |-> TRUE],
     [track |-> ""],
     [track |-> "Song"],
     [track |-> "Song", artist |-> "Artist"],
     [track |-> " SONG ", artist |-> "artist "]}

\* The track as Last.fm names it.
KnownTrack == [name |-> "Song", artist |-> "Artist"]

SearchAnswers == {Found(<<KnownTrack>>), Found(<<>>), Http503, ErrorCode6}

InfoAnswers == {Found(<<KnownTrack>>), Found(<<>>), Http404, Http503, ErrorCode6}

SimilarAnswers == {Found(<<>>), Found(<<"Other Song">>), Http503}

\* The answers to the calls a request leads to: a call that is not made has
\* one answer, the first of its kind.
AnswersTo(body) ==
    LET unasked == Found(<<KnownTrack>>)
        toInfo == {[search |-> unasked, info |-> i, similar |-> s] :
                       i \in {Found(<<KnownTrack>>)}, s \in SimilarAnswers}
                  \cup {[search |-> unasked, info |-> i, similar |-> Found(<<>>)] :
                            i \in InfoAnswers \ {Found(<<KnownTrack>>)}}
    IN  IF parseBody(body).threw THEN {[search |-> unasked, info |-> unasked,
                                        similar |-> Found(<<>>)]}
        ELSE IF artistOf(body) # "" THEN toInfo
        ELSE toInfo \cup {[search |-> a, info |-> unasked, similar |-> Found(<<>>)] :
                              a \in SearchAnswers \ {unasked}}

\* At most one database call of a request fails; none where there is no database.
DbFailures == IF db = "null" THEN {"none"} ELSE {"none", "findUnique", "update", "upsert"}

TrackIds == {"artist::song", "Artist::Song", "unknown%20artist%3A%3Asong", "%"}

InitRequest ==
    /\ db \in {"client", "null"}
    /\ trackAnalysisCache = {}
    /\ now = 0
    /\ request = None
    /\ lookups = <<>>
    /\ logged = <<>>
    /\ response = None
    /\ IdleOutsideRequest

\* part_009:27-139.  trackKey is the key line 38 computes from the body.
POST(body, trackKey, answers, dbFailure) ==
    LET parsed == parseBody(body)
        validated == parsed.value
        cachedAnalysis == findUnique(trackAnalysisCache, trackKey)
        readFailed == db = "client" /\ dbFailure = "findUnique"
        valid == /\ db = "client"
                 /\ ~readFailed
                 /\ \E row \in cachedAnalysis : inFuture(row.expiresAt, now)
        touchFailed == valid /\ dbFailure = "update"
        analysis == analyzeTrack(validated.track, artistOf(validated), answers)
        written == [trackKey |-> trackKey,
                    analysisJson |-> analysis.outcome.value,
                    expiresAt |-> now + ExpiryDays,
                    lastAccessedAt |-> now]
        checkWarning == IF readFailed \/ touchFailed
                        THEN <<"Database cache check failed:">> ELSE <<>>
    IN  /\ request' = [method |-> "POST", body |-> body]
        /\ IF parsed.threw
           THEN /\ response' = errorResponse(parsed.error)
                /\ lookups' = <<>>
                /\ logged' = errorLogged(parsed.error)
                /\ UNCHANGED trackAnalysisCache
           ELSE IF valid /\ ~touchFailed
           THEN /\ response' = [status |-> 200,
                                body |-> (CHOOSE row \in cachedAnalysis : TRUE).analysisJson]
                /\ trackAnalysisCache' = touch(trackAnalysisCache, trackKey, now)
                /\ lookups' = <<>>
                /\ logged' = <<>>
           ELSE IF analysis.outcome.threw
           THEN /\ response' = errorResponse(analysis.outcome.error)
                /\ lookups' = analysis.calls
                /\ logged' = checkWarning \o errorLogged(analysis.outcome.error)
                /\ UNCHANGED trackAnalysisCache
           ELSE /\ response' = [status |-> 200, body |-> analysis.outcome.value]
                /\ lookups' = analysis.calls
                /\ IF db = "client" /\ dbFailure # "upsert"
                   THEN /\ trackAnalysisCache' = upsert(trackAnalysisCache, trackKey, written)
                        /\ logged' = checkWarning
                   ELSE /\ UNCHANGED trackAnalysisCache
                        /\ logged' = checkWarning \o
                               (IF db = "client"
                                THEN <<"Database cache write failed:">> ELSE <<>>)
        /\ UNCHANGED <<outsideRequest, db, now>>

\* track/[id]/route.ts:18-62.
GET(id, dbFailure) ==
    LET decoded == decodeURIComponent(id)
        trackKey == decoded.value
        cachedAnalysis == findUnique(trackAnalysisCache, trackKey)
        failed == \/ decoded.threw
                  \/ dbFailure = "findUnique"
                  \/ /\ dbFailure = "update"
                     /\ \E row \in cachedAnalysis : ~(row.expiresAt <= now)
    IN  /\ request' = [method |-> "GET", id |-> id]
        /\ lookups' = <<>>
        /\ logged' = IF db = "client" /\ failed
                     THEN <<"Error retrieving cached analysis:">> ELSE <<>>
        /\ IF db = "null"
           THEN /\ response' = [status |-> 501, body |-> [error |-> "Caching not configured"]]
                /\ UNCHANGED trackAnalysisCache
           ELSE IF failed
           THEN /\ response' = [status |-> 500,
                                body |-> [error |-> "Failed to retrieve cached analysis"]]
                /\ UNCHANGED trackAnalysisCache
           ELSE IF cachedAnalysis = {} \/ \A row \in cachedAnalysis : row.expiresAt <= now
           THEN /\ response' = [status |-> 404,
                                body |-> [error |-> "Analysis not found or expired"]]
                /\ UNCHANGED trackAnalysisCache
           ELSE /\ response' = [status |-> 200,
                                body |-> (CHOOSE row \in cachedAnalysis : TRUE).analysisJson]
                /\ trackAnalysisCache' = touch(trackAnalysisCache, trackKey, now)
        /\ UNCHANGED <<outsideRequest, db, now>>

\* Time passes between two requests.
Tick ==
    /\ now < MaxDay
    /\ now' = now + ExpiryDays \div 2
    /\ UNCHANGED <<outsideRequest, db, trackAnalysisCache, request, lookups, logged,
                   response>>

\* part_009:38.  The key of a validated body, "" for a body that is not.
trackKeyOf(body) ==
    IF parseBody(body).threw THEN ""
    ELSE normalizeTrackKey(artistOrUnknown(body), body.track)

\* The bodies with their keys.
KeyedBodies == {<<body, trackKeyOf(body)>> : body \in Bodies}

Post == \E keyed \in KeyedBodies :
            \E answers \in AnswersTo(keyed[1]), dbFailure \in DbFailures :
                POST(keyed[1], keyed[2], answers, dbFailure)

Get == \E id \in TrackIds, dbFailure \in DbFailures : GET(id, dbFailure)

NextRequest == Post \/ Get \/ Tick

SpecRequest == InitRequest /\ [][NextRequest]_vars

(***************************************************************************)
(* Claims on the route handlers, under SpecRequest.                        *)
(***************************************************************************)

\* The last Last.fm call of the request served, with its answer.
LastLookup == lookups[Len(lookups)]

\* The direct track lookup reported not-found: HTTP 404, Last.fm error code 6,
\* or a document without a track.
LookupNotFound ==
    /\ lookups # <<>>
    /\ LastLookup.method = "track.getInfo"
    /\ \/ LastLookup.answer.status = 404
       \/ LastLookup.answer.error = 6
       \/ LastLookup.answer.ok /\ LastLookup.answer.error = 0 /\ LastLookup.answer.payload = <<>>

\* No artist was supplied and the track search returned no results.
SearchFoundNothing ==
    /\ lookups # <<>>
    /\ "artist" \notin DOMAIN request.body
    /\ LastLookup.method = "track.search"
    /\ LastLookup.answer.ok /\ LastLookup.answer.error = 0 /\ LastLookup.answer.payload = <<>>

TrackNotFound404 ==
    [status |-> 404,
     body |-> [error |-> "Track not found. Please check the song name and artist."]]

\* C18: every metadata-not-found outcome of an analyze request is answered
\* with the 404 'Track not found' response, both when the direct track lookup
\* reports not-found and when no artist was supplied and the track search
\* returns no results.
C18_NotFoundIsAnswered404 ==
    (request # None /\ request.method = "POST" /\ (LookupNotFound \/ SearchFoundNothing))
        => response = TrackNotFound404

\* A step in which POST /api/analyze serves a request that passes validation.
PostServes ==
    /\ now' = now
    /\ request'.method = "POST"
    /\ ~parseBody(request'.body).threw

\* A step in which GET /api/track/:id serves a request whose id can be decoded.
GetServes ==
    /\ now' = now
    /\ request'.method = "GET"
    /\ ~decodeURIComponent(request'.id).threw

\* The normalized key of the request served.
KeyServed == (CHOOSE keyed \in KeyedBodies : keyed[1] = request'.body)[2]

\* The entries the table holds under a key before the step, and those of them
\* whose expiry is in the future.
EntriesFor(key) == {row \in trackAnalysisCache : row.trackKey = key}

UnexpiredFor(key) == {row \in EntriesFor(key) : row.expiresAt > now}

\* The request was answered with a cached analysis and no Last.fm call was made.
ServedFromCache(key) ==
    /\ lookups' = <<>>
    /\ \E row \in UnexpiredFor(key) : response' = [status |-> 200, body |-> row.analysisJson]

\* The analysis went through: its last call is the one for similar tracks, and
\* it was answered.
AnalysisSucceeded ==
    /\ lookups' # <<>>
    /\ lookups'[Len(lookups')].method = "track.getSimilar"
    /\ lookups'[Len(lookups')].answer.ok

\* The analysis of what Last.fm answered in this step was returned, and is in
\* the table under the key with an expiry 30 days ahead.
ReturnedAndStored(key) ==
    /\ response'.status = 200
    /\ response'.body = [track |-> KnownTrack,
                         recommendations |-> lookups'[Len(lookups')].answer.payload]
    /\ \E row \in trackAnalysisCache' :
            /\ row.trackKey = key
            /\ row.analysisJson = response'.body
            /\ row.expiresAt = now + 30
    /\ \A row \in trackAnalysisCache', other \in trackAnalysisCache' :
            row.trackKey = other.trackKey => row = other

\* No database call of the step failed.
DatabaseAnswered ==
    /\ db = "client"
    /\ \A i \in DOMAIN logged' :
            logged'[i] \notin {"Database cache check failed:", "Database cache write failed:",
                               "Error retrieving cached analysis:"}

ENERGY_THRESHOLDS == [LOW |-> Rat(35, 100), HIGH |-> Rat(7, 10)]

\* part_002:40-44.
ENERGY_TAGS == [LOW |-> "Chill", MID |-> "Balanced", HIGH |-> "High-Energy"]

\* part_002:52-55.
MOOD_THRESHOLDS == [LOW |-> Rat(35, 100), HIGH |-> Rat(7, 10)]

\* part_002:57-61.
MOOD_TAGS == [LOW |-> "Moody", MID |-> "Bittersweet", HIGH |-> "Bright"]

\* part_002:69-72.
GROOVE_THRESHOLDS == [LOW |-> Rat(4, 10), HIGH |-> Rat(75, 100)]

\* part_002:74-78.
GROOVE_TAGS == [LOW |-> "Loose", MID |-> "Groovy", HIGH |-> "Dance-Forward"]

\* part_002:86-89.
TEXTURE_THRESHOLDS == [LOW |-> Rat(25, 100), HIGH |-> Rat(6, 10)]

\* part_002:91-95.
TEXTURE_TAGS == [LOW |-> "Produced", MID |-> "Mixed", HIGH |-> "Acoustic"]

\* part_002:102.
VOCAL_THRESHOLD == Rat(33, 100)

\* part_002:104-107.
VOCAL_TAGS == [HIGH |-> "Talky/Rap-Adjacent", LOW |-> "Melodic Vocals"]

\* part_002:115-118.
INTENSITY_THRESHOLDS == [LOUD |-> Rat(-6, 1), QUIET |-> Rat(-12, 1)]

\* part_002:120-124.
INTENSITY_TAGS == [HIGH |-> "Punchy", MID |-> "Moderate", LOW |-> "Soft"]

\* The energy tag with the low cut point counted to the low bucket.
deriveEnergyTagLowInclusive(energy) ==
    IF RatLeq(energy, ENERGY_THRESHOLDS.LOW) THEN ENERGY_TAGS.LOW
    ELSE IF RatLess(ENERGY_THRESHOLDS.HIGH, energy) THEN ENERGY_TAGS.HIGH
    ELSE ENERGY_TAGS.MID

\* part_002:132-140.
deriveEnergyTag(energy) ==
    IF RatLess(energy, ENERGY_THRESHOLDS.LOW) THEN ENERGY_TAGS.LOW
    ELSE IF RatLess(ENERGY_THRESHOLDS.HIGH, energy) THEN ENERGY_TAGS.HIGH
    ELSE ENERGY_TAGS.MID

\* part_002:148-156.
deriveMoodTag(valence) ==
    IF RatLess(valence, MOOD_THRESHOLDS.LOW) THEN MOOD_TAGS.LOW
    ELSE IF RatLess(MOOD_THRESHOLDS.HIGH, valence) THEN MOOD_TAGS.HIGH
    ELSE MOOD_TAGS.MID

\* part_002:164-172.
deriveGrooveTag(danceability) ==
    IF RatLess(danceability, GROOVE_THRESHOLDS.LOW) THEN GROOVE_TAGS.LOW
    ELSE IF RatLess(GROOVE_THRESHOLDS.HIGH, danceability) THEN GROOVE_TAGS.HIGH
    ELSE GROOVE_TAGS.MID

\* part_002:180-188.
deriveTextureTag(acousticness) ==
    IF RatLess(acousticness, TEXTURE_THRESHOLDS.LOW) THEN TEXTURE_TAGS.LOW
    ELSE IF RatLess(TEXTURE_THRESHOLDS.HIGH, acousticness) THEN TEXTURE_TAGS.HIGH
    ELSE TEXTURE_TAGS.MID

\* part_002:196-201.
deriveVocalTag(speechiness) ==
    IF RatLess(VOCAL_THRESHOLD, speechiness) THEN VOCAL_TAGS.HIGH ELSE VOCAL_TAGS.LOW

\* part_002:209-217.
deriveIntensityTag(loudness) ==
    IF RatLess(INTENSITY_THRESHOLDS.LOUD, loudness) THEN INTENSITY_TAGS.HIGH
    ELSE IF RatLess(loudness, INTENSITY_THRESHOLDS.QUIET) THEN INTENSITY_TAGS.LOW
    ELSE INTENSITY_TAGS.MID

\* part_002:226-235.
deriveVibeTags(input) ==
    <<deriveEnergyTag(input.energy),
      deriveMoodTag(input.valence),
      deriveGrooveTag(input.danceability),
      deriveTextureTag(input.acousticness),
      deriveVocalTag(input.speechiness),
      deriveIntensityTag(input.loudness)>>

\* The values next to a cut point, a thousandth apart, and the cut point.
Around(cut) == {RatSub(cut, Rat(1, 1000)), cut, RatAdd(cut, Rat(1, 1000))}

\* The features deriveVibeTags is given: every combination of values at and
\* around the cut points of each feature.
VibeInputs ==
    [energy : Around(Rat(35, 100)) \cup Around(Rat(70, 100)),
     valence : Around(Rat(35, 100)) \cup Around(Rat(70, 100)),
     danceability : Around(Rat(40, 100)) \cup Around(Rat(75, 100)),
     acousticness : Around(Rat(25, 100)) \cup Around(Rat(60, 100)),
     speechiness : Around(Rat(33, 100)),
     loudness : Around(Rat(-6, 1)) \cup Around(Rat(-12, 1))]

InitVibeTags ==
    /\ vibeInput \in VibeInputs
    /\ vibeTags = <<>>
    /\ IdleOutsideVibeTags

\* part_002:226-235, one call.
DeriveVibeTags ==
    /\ vibeTags = <<>>
    /\ vibeTags' = deriveVibeTags(vibeInput)
    /\ UNCHANGED <<outsideVibeTags, vibeInput>>

NextVibeTags == DeriveVibeTags

SpecVibeTags == InitVibeTags /\ [][NextVibeTags]_vars

\* The three-way classification as stated: below the low cut the low tag,
\* above the high cut the high tag, and the mid tag from cut to cut inclusive.
Stated3(x, lowCut, highCut, low, mid, high) ==
    IF x.num * lowCut.den < lowCut.num * x.den THEN low
    ELSE IF x.num * highCut.den > highCut.num * x.den THEN high
    ELSE mid

\* C20: deriveVibeTags returns exactly 6 tags in the order energy, mood,
\* groove, texture, vocal, intensity; each is decided by its own feature alone,
\* with the mid bucket inclusive at both cut points: energy and valence below
\* 0.35 low and above 0.70 high, danceability 0.40 and 0.75, acousticness 0.25
\* and 0.60, loudness above -6 Punchy and below -12 Soft and else Moderate,
\* speechiness above 0.33 Talky/Rap-Adjacent and else Melodic Vocals.
C20_SixTagsByOwnFeature ==
    vibeTags # <<>> =>
        /\ Len(vibeTags) = 6
        /\ vibeTags[1] = Stated3(vibeInput.energy, Rat(35, 100), Rat(70, 100),
                                 "Chill", "Balanced", "High-Energy")
        /\ vibeTags[2] = Stated3(vibeInput.valence, Rat(35, 100), Rat(70, 100),
                                 "Moody", "Bittersweet", "Bright")
        /\ vibeTags[3] = Stated3(vibeInput.danceability, Rat(40, 100), Rat(75, 100),
                                 "Loose", "Groovy", "Dance-Forward")
        /\ vibeTags[4] = Stated3(vibeInput.acousticness, Rat(25, 100), Rat(60, 100),
                                 "Produced", "Mixed", "Acoustic")
        /\ vibeTags[5] = (IF vibeInput.speechiness.num * 100 > 33 * vibeInput.speechiness.den
                          THEN "Talky/Rap-Adjacent" ELSE "Melodic Vocals")
        /\ vibeTags[6] = Stated3(vibeInput.loudness, Rat(-12, 1), Rat(-6, 1),
                                 "Soft", "Moderate", "Punchy")
        /\ vibeInput.energy \in {Rat(35, 100), Rat(70, 100)} => vibeTags[1] = "Balanced"
        /\ vibeInput.valence \in {Rat(35, 100), Rat(70, 100)} => vibeTags[2] = "Bittersweet"
        /\ vibeInput.danceability \in {Rat(40, 100), Rat(75, 100)} => vibeTags[3] = "Groovy"
        /\ vibeInput.acousticness \in {Rat(25, 100), Rat(60, 100)} => vibeTags[4] = "Mixed"
        /\ vibeInput.speechiness = Rat(33, 100) => vibeTags[5] = "Melodic Vocals"
        /\ vibeInput.loudness \in {Rat(-6, 1), Rat(-12, 1)} => vibeTags[6] = "Moderate"

\* Every feature on a cut point: all six tags are the mid or lower ones.
C20_Witness ==
    /\ vibeInput # None
    /\ vibeInput.energy = Rat(35, 100)
    /\ vibeInput.valence = Rat(70, 100)
    /\ vibeInput.danceability = Rat(75, 100)
    /\ vibeInput.acousticness = Rat(25, 100)
    /\ vibeInput.speechiness = Rat(33, 100)
    /\ vibeInput.loudness = Rat(-6, 1)
    /\ vibeTags = <<"Balanced", "Bittersweet", "Groovy", "Mixed", "Melodic Vocals", "Moderate">>
(***************************************************************************)
(* The explanation templates and the fingerprint they are fed from.        *)
(***************************************************************************)

\* Math.round: the nearest integer, halves upward.
round(x) == (2 * x.num + x.den) \div (2 * x.den)

\* The digits of num/den after the decimal point, at most n of them.
RECURSIVE fractionDigits(_, _, _)
fractionDigits(num, den, n) ==
    IF num = 0 \/ n = 0 THEN ""
    ELSE ToString((10 * num) \div den) \o fractionDigits((10 * num) % den, den, n - 1)

\* Number.prototype.toString as a template literal applies it: an integer is
\* written in decimal digits, any other value with a point and its decimals.
numberToString(x) ==
    LET whole == Abs(x.num) \div x.den
        rest == Abs(x.num) % x.den
        sign == IF x.num < 0 THEN "-" ELSE ""
    IN  IF rest = 0 THEN sign \o ToString(whole)
        ELSE sign \o ToString(whole) \o "." \o fractionDigits(rest, x.den, 16)

\* explanation-templates.ts:39-42.  The BPM categories of getTldrGroove.
isSlow(bpm) == RatLess(bpm, Rat(90, 1))
isMedium(bpm) == RatLeq(Rat(90, 1), bpm) /\ RatLeq(bpm, Rat(120, 1))
isFast(bpm) == RatLess(Rat(120, 1), bpm) /\ RatLeq(bpm, Rat(150, 1))
isVeryFast(bpm) == RatLess(Rat(150, 1), bpm)

\* explanation-templates.ts:45-47.
isLowDance(danceability) == RatLess(danceability, Rat(4, 10))
isMidDance(danceability) ==
    RatLeq(Rat(4, 10), danceability) /\ RatLeq(danceability, Rat(75, 100))
isHighDance(danceability) == RatLess(Rat(75, 100), danceability)

\* getTldrGroove with the first test reading bpm <= 90.
getTldrGrooveSlowAt90(bpm, danceability) ==
    IF RatLeq(bpm, Rat(90, 1)) /\ isLowDance(danceability)
        THEN "A slow, contemplative rhythm that invites deep listening."
    ELSE IF RatLeq(bpm, Rat(90, 1)) /\ isMidDance(danceability)
        THEN "A laid-back tempo with a subtle groove that sways gently."
    ELSE IF RatLeq(bpm, Rat(90, 1)) /\ isHighDance(danceability)
        THEN "A slow burner with surprisingly strong rhythmic pull."
    ELSE IF isMedium(bpm) /\ isLowDance(danceability)
        THEN "A moderate pace that emphasizes melody over movement."
    ELSE IF isMedium(bpm) /\ isMidDance(danceability)
        THEN "A comfortable mid-tempo groove that feels natural and easy."
    ELSE IF isMedium(bpm) /\ isHighDance(danceability)
        THEN "A mid-tempo track with strong dance-floor appeal."
    ELSE IF isFast(bpm) /\ isLowDance(danceability)
        THEN "A brisk tempo but with restrained rhythmic intensity."
    ELSE IF isFast(bpm) /\ isMidDance(danceability)
        THEN "An upbeat tempo with solid rhythmic momentum."
    ELSE IF isFast(bpm) /\ isHighDance(danceability)
        THEN "A driving, dance-ready rhythm that keeps energy high."
    ELSE IF isVeryFast(bpm) /\ isLowDance(danceability)
        THEN "A racing tempo that prioritizes intensity over groove."
    ELSE IF isVeryFast(bpm) /\ isMidDance(danceability)
        THEN "A fast-paced track with steady rhythmic foundation."
    ELSE "A high-speed rhythm built for maximum movement."

\* explanation-templates.ts:37-97.
getTldrGroove(bpm, danceability) ==
    IF isSlow(bpm) /\ isLowDance(danceability)
        THEN "A slow, contemplative rhythm that invites deep listening."
    ELSE IF isSlow(bpm) /\ isMidDance(danceability)
        THEN "A laid-back tempo with a subtle groove that sways gently."
    ELSE IF isSlow(bpm) /\ isHighDance(danceability)
        THEN "A slow burner with surprisingly strong rhythmic pull."
    ELSE IF isMedium(bpm) /\ isLowDance(danceability)
        THEN "A moderate pace that emphasizes melody over movement."
    ELSE IF isMedium(bpm) /\ isMidDance(danceability)
        THEN "A comfortable mid-tempo groove that feels natural and easy."
    ELSE IF isMedium(bpm) /\ isHighDance(danceability)
        THEN "A mid-tempo track with strong dance-floor appeal."
    ELSE IF isFast(bpm) /\ isLowDance(danceability)
        THEN "A brisk tempo but with restrained rhythmic intensity."
    ELSE IF isFast(bpm) /\ isMidDance(danceability)
        THEN "An upbeat tempo with solid rhythmic momentum."
    ELSE IF isFast(bpm) /\ isHighDance(danceability)
        THEN "A driving, dance-ready rhythm that keeps energy high."
    ELSE IF isVeryFast(bpm) /\ isLowDance(danceability)
        THEN "A racing tempo that prioritizes intensity over groove."
    ELSE IF isVeryFast(bpm) /\ isMidDance(danceability)
        THEN "A fast-paced track with steady rhythmic foundation."
    ELSE "A high-speed rhythm built for maximum movement."

\* explanation-templates.ts:104-106.
isMajor(mode) == mode = "Major"
isMinor(mode) == mode = "Minor"
isUnknownMode(mode) == mode = "Unknown"

\* explanation-templates.ts:108-110.
isLowValence(valence) == RatLess(valence, Rat(35, 100))
isMidValence(valence) ==
    RatLeq(Rat(35, 100), valence) /\ RatLeq(valence, Rat(7, 10))
isHighValence(valence) == RatLess(Rat(7, 10), valence)

\* explanation-templates.ts:103-142.
getTldrMood(mode, valence) ==
    IF isMajor(mode) /\ isLowValence(valence)
        THEN "A major key with unexpectedly dark emotional undertones."
    ELSE IF isMajor(mode) /\ isMidValence(valence)
        THEN "A balanced major-key mood that feels thoughtful and grounded."
    ELSE IF isMajor(mode) /\ isHighValence(valence)
        THEN "A bright, uplifting major-key sound that radiates positivity."
    ELSE IF isMinor(mode) /\ isLowValence(valence)
        THEN "A minor key that deepens the introspective, moody atmosphere."
    ELSE IF isMinor(mode) /\ isMidValence(valence)
        THEN "A minor-key foundation with nuanced emotional texture."
    ELSE IF isMinor(mode) /\ isHighValence(valence)
        THEN "A minor key with surprising warmth and emotional lift."
    ELSE IF isUnknownMode(mode) /\ isLowValence(valence)
        THEN "A deeply atmospheric, emotionally weighty mood."
    ELSE IF isUnknownMode(mode) /\ isMidValence(valence)
        THEN "A balanced emotional tone with room for interpretation."
    ELSE "An emotionally bright and engaging overall feel."

\* explanation-templates.ts:149-151.
isAcoustic(acousticness) == RatLess(Rat(6, 10), acousticness)
isMixed(acousticness) ==
    RatLeq(Rat(25, 100), acousticness) /\ RatLeq(acousticness, Rat(6, 10))
isProduced(acousticness) == RatLess(acousticness, Rat(25, 100))

\* explanation-templates.ts:153-155.
isPunchy(loudness) == RatLess(Rat(-6, 1), loudness)
isModerate(loudness) == RatLeq(Rat(-12, 1), loudness) /\ RatLeq(loudness, Rat(-6, 1))
isSoft(loudness) == RatLess(loudness, Rat(-12, 1))

\* explanation-templates.ts:148-187.
getTldrTexture(acousticness, loudness) ==
    IF isAcoustic(acousticness) /\ isPunchy(loudness)
        THEN "Acoustic instrumentation with forward, present sound."
    ELSE IF isAcoustic(acousticness) /\ isModerate(loudness)
        THEN "Warm acoustic textures at comfortable listening levels."
    ELSE IF isAcoustic(acousticness) /\ isSoft(loudness)
        THEN "Gentle acoustic tones that feel intimate and delicate."
    ELSE IF isMixed(acousticness) /\ isPunchy(loudness)
        THEN "A blend of organic and produced sounds with punchy presence."
    ELSE IF isMixed(acousticness) /\ isModerate(loudness)
        THEN "Balanced production mixing acoustic and electronic elements."
    ELSE IF isMixed(acousticness) /\ isSoft(loudness)
        THEN "Subtle production with restrained, atmospheric layers."
    ELSE IF isProduced(acousticness) /\ isPunchy(loudness)
        THEN "Heavily produced with bold, in-your-face sound design."
    ELSE IF isProduced(acousticness) /\ isModerate(loudness)
        THEN "Polished production with clear, well-balanced mix."
    ELSE "Softly produced textures that prioritize atmosphere."

\* explanation-templates.ts:199-210.
bpmBullet(bpm) ==
    IF RatLess(bpm, Rat(80, 1))
        THEN "At " \o numberToString(bpm) \o " BPM, this track moves at a deliberate, slow pace."
    ELSE IF RatLess(bpm, Rat(100, 1))
        THEN "At " \o numberToString(bpm) \o " BPM, this track has a relaxed, laid-back tempo."
    ELSE IF RatLess(bpm, Rat(120, 1))
        THEN "At " \o numberToString(bpm)
                 \o " BPM, this track sits in a comfortable mid-tempo zone."
    ELSE IF RatLess(bpm, Rat(140, 1))
        THEN "At " \o numberToString(bpm) \o " BPM, this track has an upbeat, energetic tempo."
    ELSE "At " \o numberToString(bpm)
             \o " BPM, this track races forward with high-speed momentum."

\* explanation-templates.ts:212-225.
timeSignatureBullet(timeSignature) ==
    IF timeSignature = Rat(4, 1)
        THEN "The 4/4 time signature provides a familiar, steady pulse."
    ELSE IF timeSignature = Rat(3, 1)
        THEN "The 3/4 time signature creates a waltz-like, flowing feel."
    ELSE IF timeSignature = Rat(6, 1)
        THEN "The 6/8 time signature adds a rolling, compound groove."
    ELSE IF timeSignature = Rat(5, 1)
        THEN "The unusual 5/4 time signature creates an asymmetric, distinctive rhythm."
    ELSE IF timeSignature = Rat(7, 1)
        THEN "The 7/4 time signature brings complexity and unpredictability."
    ELSE "The " \o numberToString(timeSignature)
             \o "/4 time signature shapes the rhythmic foundation."

\* explanation-templates.ts:227-236.
danceabilityBullet(danceability) ==
    IF RatLess(danceability, Rat(3, 10))
        THEN "Rhythmically sparse, this track prioritizes texture over groove."
    ELSE IF RatLess(danceability, Rat(5, 10))
        THEN "The rhythm has subtle movement without demanding dance engagement."
    ELSE IF RatLess(danceability, Rat(7, 10))
        THEN "A solid rhythmic backbone encourages natural body movement."
    ELSE "Strong beat patterns create an irresistible urge to move."

\* explanation-templates.ts:196-239.
getRhythmBullets(bpm, timeSignature, danceability) ==
    <<bpmBullet(bpm), timeSignatureBullet(timeSignature), danceabilityBullet(danceability)>>

\* explanation-templates.ts:251-256.
keyBullet(key, mode) ==
    IF key = "Unknown"
        THEN <<"The harmonic center is unclear from metadata, but the mood and groove cues remain strong.">>
    ELSE <<"Rooted in " \o key \o " " \o toLowerCase(mode)
               \o ", the harmony sets a clear tonal foundation.">>

\* explanation-templates.ts:258-263.  The mode bullet, pushed only for a known mode.
modeBullet(mode) ==
    IF mode = "Major"
        THEN <<"The major mode generally conveys openness and resolution.">>
    ELSE IF mode = "Minor"
        THEN <<"The minor mode adds depth and a sense of tension or longing.">>
    ELSE <<>>

\* explanation-templates.ts:265-276.
valenceBullet(valence) ==
    IF RatLess(valence, Rat(25, 100))
        THEN <<"Emotionally heavy, the track carries a dark, introspective weight.">>
    ELSE IF RatLess(valence, Rat(45, 100))
        THEN <<"A melancholic undercurrent colors the emotional landscape.">>
    ELSE IF RatLess(valence, Rat(65, 100))
        THEN <<"The emotional tone sits in a balanced, bittersweet middle ground.">>
    ELSE IF RatLess(valence, Rat(85, 100))
        THEN <<"Warmth and positivity flow through the harmonic choices.">>
    ELSE <<"Bright and exuberant, the track overflows with joyful energy.">>

\* getHarmonyMoodBullets with the key bullet pushed only for a known key.
getHarmonyMoodBulletsKnownKeyOnly(key, mode, valence) ==
    (IF key = "Unknown" THEN <<>> ELSE keyBullet(key, mode))
        \o modeBullet(mode) \o valenceBullet(valence)

\* explanation-templates.ts:248-279.
getHarmonyMoodBullets(key, mode, valence) ==
    keyBullet(key, mode) \o modeBullet(mode) \o valenceBullet(valence)

\* explanation-templates.ts:295-304.
acousticnessBullet(acousticness) ==
    IF RatLess(Rat(75, 100), acousticness)
        THEN "Predominantly acoustic, natural instrument tones define the sound."
    ELSE IF RatLess(Rat(5, 10), acousticness)
        THEN "Acoustic elements play a significant role in the sonic palette."
    ELSE IF RatLess(Rat(25, 100), acousticness)
        THEN "Production blends acoustic and electronic elements in balance."
    ELSE "Electronic production and synthesis dominate the sound design."

\* explanation-templates.ts:306-313.
instrumentalnessBullet(instrumentalness) ==
    IF RatLess(Rat(7, 10), instrumentalness)
        THEN "The track leans heavily instrumental, with minimal vocal presence."
    ELSE IF RatLess(Rat(4, 10), instrumentalness)
        THEN "Instruments and vocals share the spotlight in balanced proportion."
    ELSE "Vocals take center stage as the primary melodic vehicle."

\* explanation-templates.ts:315-324.
loudnessBullet(loudness) ==
    IF RatLess(Rat(-5, 1), loudness)
        THEN "Mastered loud and punchy for maximum impact."
    ELSE IF RatLess(Rat(-8, 1), loudness)
        THEN "Solid dynamic range with assertive but controlled loudness."
    ELSE IF RatLess(Rat(-12, 1), loudness)
        THEN "Moderate loudness preserves subtle dynamic nuances."
    ELSE "Quiet and restrained, allowing for intimate listening."

\* explanation-templates.ts:288-327.
getSoundTextureBullets(acousticness, instrumentalness, loudness) ==
    <<acousticnessBullet(acousticness), instrumentalnessBullet(instrumentalness),
      loudnessBullet(loudness)>>

\* explanation-templates.ts:340-363.
generateExplanation(input) ==
    [tldr |-> <<getTldrGroove(input.bpm, input.danceability),
                getTldrMood(input.mode, input.valence),
                getTldrTexture(input.acousticness, input.loudness)>>,
     sections |->
        [rhythm |-> getRhythmBullets(input.bpm, input.timeSignature, input.danceability),
         harmony_mood |-> getHarmonyMoodBullets(input.key, input.mode, input.valence),
         sound_texture |-> getSoundTextureBullets(input.acousticness,
                               input.instrumentalness, input.loudness)]]

\* part_000:16-30.
KEY_NAMES ==
    [k \in -1 .. 11 |->
        <<"Unknown", "C", "C#", "D", "D#", "E", "F", "F#", "G", "G#", "A", "A#", "B">>[k + 2]]

\* The table with the entry of mode 1 only.
MODE_NAMES_MajorOnly == [m \in 1 .. 1 |-> "Major"]

\* part_000:35-38.
MODE_NAMES == [m \in 0 .. 1 |-> <<"Minor", "Major">>[m + 1]]

\* table[value] ?? 'Unknown': a value that is no key of the table reads undefined.
nameIn(table, value) ==
    IF value.den = 1 /\ value.num \in DOMAIN table THEN table[value.num] ELSE "Unknown"

\* analysis-lastfm.ts:35-69.
deriveFingerprint(estimatedFeatures, tags) ==
    [bpm |-> Rat(round(estimatedFeatures.tempo), 1),
     key |-> nameIn(KEY_NAMES, estimatedFeatures.key),
     mode |-> nameIn(MODE_NAMES, estimatedFeatures.mode),
     time_signature |-> estimatedFeatures.time_signature,
     loudness |-> estimatedFeatures.loudness,
     energy |-> estimatedFeatures.energy,
     danceability |-> estimatedFeatures.danceability,
     valence |-> estimatedFeatures.valence,
     acousticness |-> estimatedFeatures.acousticness,
     instrumentalness |-> estimatedFeatures.instrumentalness,
     liveness |-> estimatedFeatures.liveness,
     speechiness |-> estimatedFeatures.speechiness,
     genres |-> sliceTo(tags, 10),
     vibe_tags |-> deriveVibeTags(
         [energy |-> estimatedFeatures.energy,
          valence |-> estimatedFeatures.valence,
          danceability |-> estimatedFeatures.danceability,
          acousticness |-> estimatedFeatures.acousticness,
          speechiness |-> estimatedFeatures.speechiness,
          loudness |-> estimatedFeatures.loudness])]

\* analysis-lastfm.ts:375-386.  The argument analyzeTrackByName builds.
explanationInputOf(print) ==
    [bpm |-> print.bpm,
     key |-> print.key,
     mode |-> print.mode,
     timeSignature |-> print.time_signature,
     danceability |-> print.danceability,
     energy |-> print.energy,
     valence |-> print.valence,
     acousticness |-> print.acousticness,
     instrumentalness |-> print.instrumentalness,
     loudness |-> print.loudness]

\* explanation-templates.test.ts:12-23.
baseInput ==
    [bpm |-> Rat(120, 1),
     key |-> "C",
     mode |-> "Major",
     timeSignature |-> Rat(4, 1),
     danceability |-> Rat(5, 10),
     energy |-> Rat(5, 10),
     valence |-> Rat(5, 10),
     acousticness |-> Rat(5, 10),
     instrumentalness |-> Rat(5, 10),
     loudness |-> Rat(-8, 1)]

\* The values on each side of a cut point, a half apart, and the cut point.
AroundHalf(cut) == {RatSub(cut, Rat(1, 2)), cut, RatAdd(cut, Rat(1, 2))}

BpmValues ==
    {Rat(0, 1), Rat(70, 1), Rat(300, 1)}
        \cup UNION {AroundHalf(Rat(c, 1)) : c \in {80, 90, 100, 120, 140, 150}}

TimeSignatureValues == {Rat(n, 1) : n \in {0, 1, 3, 4, 5, 6, 7, 12}} \cup {Rat(9, 2)}

\* Values at and around the cut points, given in hundredths.
UnitValues(cuts) ==
    {Rat(0, 1), Rat(1, 1)} \cup UNION {Around(Rat(c, 100)) : c \in cuts}

ModeValues == {"Major", "Minor", "Unknown", "major", ""}

KeyValues == {"Unknown", "C", "F#", ""}

LoudnessValues ==
    {Rat(-60, 1), Rat(0, 1)} \cup UNION {Around(Rat(c, 1)) : c \in {-12, -8, -6, -5}}

\* The arguments of a direct call: the test's base input with the arguments of
\* one pair of templates varied over the values at and around their cut points.
ExplanationInputs ==
    {[baseInput EXCEPT !.bpm = b, !.timeSignature = t, !.danceability = d] :
        b \in BpmValues, t \in TimeSignatureValues, d \in UnitValues({20, 30, 40, 50, 70, 75})}
    \cup
    {[baseInput EXCEPT !.key = k, !.mode = m, !.valence = v] :
        k \in KeyValues, m \in ModeValues, v \in UnitValues({25, 35, 45, 65, 70, 85})}
    \cup
    {[baseInput EXCEPT !.acousticness = a, !.instrumentalness = i, !.loudness = l] :
        a \in UnitValues({25, 50, 60, 75}), i \in UnitValues({40, 70}),
        l \in LoudnessValues}

\* The tag lists Last.fm gives for a track.
TrackTagLists == TagLists

\* Either generateExplanation is called directly, or analyzeTrackByName has the
\* tags of its track and is about to estimate its features.
InitExplanation ==
    /\ IdleOutsideExplanation
    /\ trackFeatures = None
    /\ fingerprint = None
    /\ explanation = None
    /\ explanationAgain = None
    /\ \/ /\ explainPc = "explain"
          /\ trackTags = <<>>
          /\ explanationInput \in ExplanationInputs
       \/ /\ explainPc = "estimate"
          /\ trackTags \in TrackTagLists
          /\ explanationInput = None

\* analysis-lastfm.ts:369.
EstimateTrack ==
    /\ explainPc = "estimate"
    /\ trackFeatures' = estimateFeaturesFromTags(trackTags)
    /\ explainPc' = "fingerprint"
    /\ UNCHANGED <<trackTags, fingerprint, explanationInput, explanation, explanationAgain>>
    /\ UNCHANGED outsideExplanation

\* analysis-lastfm.ts:372-386.  The fingerprint and the argument built from it.
Fingerprint ==
    /\ explainPc = "fingerprint"
    /\ fingerprint' = deriveFingerprint(trackFeatures, trackTags)
    /\ explanationInput' = explanationInputOf(fingerprint')
    /\ explainPc' = "explain"
    /\ UNCHANGED <<trackTags, trackFeatures, explanation, explanationAgain>>
    /\ UNCHANGED outsideExplanation

\* The call of generateExplanation.
Explain ==
    /\ explainPc = "explain"
    /\ explanation' = generateExplanation(explanationInput)
    /\ explainPc' = "explained"
    /\ UNCHANGED <<trackTags, trackFeatures, fingerprint, explanationInput, explanationAgain>>
    /\ UNCHANGED outsideExplanation

\* A second call with the argument of the first.
ExplainAgain ==
    /\ explainPc = "explained"
    /\ explanationAgain' = generateExplanation(explanationInput)
    /\ explainPc' = "repeated"
    /\ UNCHANGED <<trackTags, trackFeatures, fingerprint, explanationInput, explanation>>
    /\ UNCHANGED outsideExplanation

NextExplanation == EstimateTrack \/ Fingerprint \/ Explain \/ ExplainAgain

SpecExplanation == InitExplanation /\ [][NextExplanation]_vars
(***************************************************************************)
(* Properties of the explanation templates.                                *)
(***************************************************************************)

\* generateExplanation has returned.
Explained == explainPc \in {"explained", "repeated"}

SectionLengths ==
    {Len(explanation.sections.rhythm), Len(explanation.sections.harmony_mood),
     Len(explanation.sections.sound_texture)}

Band(lo, loIn, hi, hiIn) == [lo |-> lo, loIn |-> loIn, hi |-> hi, hiIn |-> hiIn]

InBand(x, band) ==
    /\ band.lo # None => IF band.loIn THEN RatLeq(band.lo, x) ELSE RatLess(band.lo, x)
    /\ band.hi # None => IF band.hiIn THEN RatLeq(x, band.hi) ELSE RatLess(x, band.hi)

\* below lo, lo to hi with both ends, above hi.
ThreeBands(lo, hi) ==
    <<Band(None, FALSE, lo, FALSE), Band(lo, TRUE, hi, TRUE), Band(hi, FALSE, None, FALSE)>>

\* The stated grid lines.
TempoBands ==
    <<Band(None, FALSE, Rat(90, 1), FALSE), Band(Rat(90, 1), TRUE, Rat(120, 1), TRUE),
      Band(Rat(120, 1), FALSE, Rat(150, 1), TRUE), Band(Rat(150, 1), FALSE, None, FALSE)>>

DanceBands == ThreeBands(Rat(40, 100), Rat(75, 100))

ValenceBands == ThreeBands(Rat(35, 100), Rat(70, 100))

AcousticnessBands == ThreeBands(Rat(25, 100), Rat(60, 100))

LoudnessBands == ThreeBands(Rat(-12, 1), Rat(-6, 1))

StatedModes == <<"Major", "Minor", "Unknown">>

\* The bands of a grid line that hold the value.
BandsOf(x, bands) == {k \in DOMAIN bands : InBand(x, bands[k])}

\* One value inside each band.
TempoInside == <<Rat(70, 1), Rat(100, 1), Rat(140, 1), Rat(180, 1)>>
DanceInside == <<Rat(2, 10), Rat(5, 10), Rat(9, 10)>>
ValenceInside == <<Rat(1, 10), Rat(5, 10), Rat(9, 10)>>
AcousticnessInside == <<Rat(1, 10), Rat(4, 10), Rat(8, 10)>>
LoudnessInside == <<Rat(-20, 1), Rat(-8, 1), Rat(-3, 1)>>

\* The sentence each classifier selects inside each cell of its grid.
GrooveSentences ==
    {<<t, d, getTldrGroove(TempoInside[t], DanceInside[d])>> :
        t \in DOMAIN TempoBands, d \in DOMAIN DanceBands}

MoodSentences ==
    {<<m, v, getTldrMood(StatedModes[m], ValenceInside[v])>> :
        m \in DOMAIN StatedModes, v \in DOMAIN ValenceBands}

TextureSentences ==
    {<<a, l, getTldrTexture(AcousticnessInside[a], LoudnessInside[l])>> :
        a \in DOMAIN AcousticnessBands, l \in DOMAIN LoudnessBands}

\* No two cells of the grid have the same sentence.
OwnSentences(sentences) == \A c, d \in sentences : c[3] = d[3] => c = d

\* C25: the three TL;DR classifiers partition their input space: a 4 x 3 groove
\* grid (tempo < 90, 90..120, above 120 up to 150, above 150; danceability
\* < 0.4, 0.4..0.75, > 0.75), a 3 x 3 mood grid (mode Major, Minor, Unknown;
\* valence < 0.35, 0.35..0.7, > 0.7) and a 3 x 3 texture grid (acousticness
\* < 0.25, 0.25..0.6, > 0.6; loudness < -12, -12..-6, > -6); every input lies
\* in exactly one cell, each cell selects its own sentence, different from the
\* sentence of every other cell of its grid, and bpm 70 with danceability 0.2
\* selects a sentence containing 'slow'.
C25_TldrGridsPartitionAndSelect ==
    /\ OwnSentences(GrooveSentences) /\ Cardinality(GrooveSentences) = 12
    /\ OwnSentences(MoodSentences) /\ Cardinality(MoodSentences) = 9
    /\ OwnSentences(TextureSentences) /\ Cardinality(TextureSentences) = 9
    /\ Explained =>
          LET in == explanationInput
              t == BandsOf(in.bpm, TempoBands)
              d == BandsOf(in.danceability, DanceBands)
              v == BandsOf(in.valence, ValenceBands)
              a == BandsOf(in.acousticness, AcousticnessBands)
              l == BandsOf(in.loudness, LoudnessBands)
              m == {k \in DOMAIN StatedModes : StatedModes[k] = in.mode}
          IN  /\ \A cells \in {t, d, v, a, l} : Cardinality(cells) = 1
              /\ \A i \in t, j \in d : <<i, j, explanation.tldr[1]>> \in GrooveSentences
              /\ \A i \in m, j \in v : <<i, j, explanation.tldr[2]>> \in MoodSentences
              /\ \A i \in a, j \in l : <<i, j, explanation.tldr[3]>> \in TextureSentences
              /\ (in.bpm = Rat(70, 1) /\ in.danceability = Rat(2, 10)) =>
                    Includes(explanation.tldr[1], "slow")

\* The explanation of a track at 70 BPM with danceability 0.2.
C25_Witness ==
    /\ Explained
    /\ explanationInput.bpm = Rat(70, 1)
    /\ explanationInput.danceability = Rat(2, 10)
    /\ explanationInput.mode = "Major"
    /\ Includes(explanation.tldr[1], "slow")

\* C28: for every tag list estimateFeaturesFromTags returns key -1, time
\* signature 4 and mode 0 or 1; hence every fingerprint analyzeTrackByName
\* builds has key 'Unknown' and mode 'Major' or 'Minor', and the harmony_mood
\* section of its explanation has exactly 3 bullets.  No profile declares a key
\* or a time signature, and the profiles that declare a mode declare the same
\* one, so no mean of modes lies between 0 and 1.
C28_EstimatedKeyUnknownModeKnown ==
    /\ \A p \in DOMAIN TAG_PROFILES : \A e \in SeqToSet(TAG_PROFILES[p].features) :
          /\ e[1] \notin {"key", "time_signature"}
          /\ e[1] = "mode" => e[2] \in {0, 100}
          /\ e[1] = "mode" => \A q \in DOMAIN TAG_PROFILES :
                \A d \in SeqToSet(TAG_PROFILES[q].features) : d[1] = "mode" => d[2] = e[2]
    /\ trackFeatures # None =>
          /\ trackFeatures.key = Rat(-1, 1)
          /\ trackFeatures.time_signature = Rat(4, 1)
          /\ trackFeatures.mode \in {Rat(0, 1), Rat(1, 1)}
    /\ fingerprint # None =>
          /\ fingerprint.key = "Unknown"
          /\ fingerprint.mode \in {"Major", "Minor"}
    /\ (fingerprint # None /\ Explained) =>
          Len(explanation.sections.harmony_mood) = 3

\* The explanation of a track whose two tags match feature profiles, one of
\* them the profile that sets the mode to 0.
C28_Witness ==
    /\ Explained
    /\ Len(trackTags) = 2
    /\ trackFeatures.mode = Rat(0, 1)
    /\ trackFeatures.tempo # Rat(120, 1)
    /\ fingerprint.mode = "Minor"
    /\ fingerprint.key = "Unknown"
    /\ Len(explanation.sections.harmony_mood) = 3
(***************************************************************************)
(* Properties of the feature estimator, stated over the matched profiles.  *)
(***************************************************************************)

\* The profiles one of whose patterns is a substring of a lower-cased tag.
MatchedProfiles(tags) ==
    {p \in DOMAIN TAG_PROFILES :
        \E i \in DOMAIN TAG_PROFILES[p].patterns, t \in LowerCased(tags) :
            Includes(t, TAG_PROFILES[p].patterns[i])}

\* The profiles of a set that declare a value for the feature.
Declaring(profiles, feature) ==
    {p \in profiles : \E e \in SeqToSet(TAG_PROFILES[p].features) : e[1] = feature}

\* The value (in hundredths) the profile declares for the feature.
DeclaredBy(p, feature) ==
    (CHOOSE e \in SeqToSet(TAG_PROFILES[p].features) : e[1] = feature)[2]

RECURSIVE SumOver(_, _)
SumOver(profiles, feature) ==
    IF profiles = {} THEN 0
    ELSE LET p == CHOOSE q \in profiles : TRUE
         IN  DeclaredBy(p, feature) + SumOver(profiles \ {p}, feature)

\* The mean of one sample per declaring profile.
MeanOver(profiles, feature) ==
    Rat(SumOver(Declaring(profiles, feature), feature),
        100 * Cardinality(Declaring(profiles, feature)))

\* The stated default vector.
StatedDefaults ==
    [tempo |-> Rat(120, 1), key |-> Rat(-1, 1), mode |-> Rat(1, 1),
     time_signature |-> Rat(4, 1), loudness |-> Rat(-8, 1), energy |-> Rat(1, 2),
     danceability |-> Rat(1, 2), valence |-> Rat(1, 2), acousticness |-> Rat(3, 10),
     instrumentalness |-> Rat(1, 10), liveness |-> Rat(15, 100),
     speechiness |-> Rat(5, 100)]

\* C22: whenever no tag profile matches, because the list is empty or because no
\* lower-cased tag contains a profile pattern, estimateFeaturesFromTags returns
\* exactly the default vector: tempo 120, key -1, mode 1, time_signature 4,
\* loudness -8, energy 0.5, danceability 0.5, valence 0.5, acousticness 0.3,
\* instrumentalness 0.1, liveness 0.15, speechiness 0.05.
C22_DefaultsWhenNothingMatches ==
    (features # None /\ MatchedProfiles(sourceTags) = {}) => features = StatedDefaults

\* The estimate of a list of two different non-empty tags that match no profile.
C22_Witness ==
    /\ features = StatedDefaults
    /\ Len(sourceTags) = 2
    /\ sourceTags[1] # sourceTags[2]
    /\ "" \notin SeqToSet(sourceTags)
    /\ MatchedProfiles(sourceTags) = {}

\* The value stated for a feature: the clamped mean of the samples of the
\* matched profiles that declare it, the default when none does.
StatedValue(profiles, feature) ==
    IF Declaring(profiles, feature) = {} THEN StatedDefaults[feature]
    ELSE LET mean == MeanOver(profiles, feature)
         IN  IF feature \in UnitFeatures THEN clamp(mean, 0, 1)
             ELSE IF feature = "tempo" THEN clamp(mean, 40, 220)
             ELSE IF feature = "loudness" THEN clamp(mean, -60, 0)
             ELSE mean

\* Every tag list with the profiles it matches and its estimate.
EstimateOfList ==
    {<<MatchedProfiles(tags), estimateFeaturesFromTags(tags)>> : tags \in TagLists}

\* C23: a profile is matched exactly when one of its patterns is a substring
\* of a lower-cased tag; a matched profile gives one sample to each feature it
\* declares, however many tags or patterns matched it; a feature with samples
\* is their arithmetic mean (then clamped), one without keeps its default; so
\* the result is the same for all lists that match the same set of profiles.
C23_MeanOfOneSamplePerMatchedProfile ==
    features # None =>
        LET matched == MatchedProfiles(sourceTags)
        IN  /\ \A f \in FeatureNames : features[f] = StatedValue(matched, f)
            /\ \A other \in EstimateOfList : other[1] = matched => other[2] = features

\* An estimate from two different tags that match the same profile, and one of
\* them a second profile, so that a feature is the mean of two samples.
C23_Witness ==
    /\ features # None
    /\ Len(sourceTags) = 2
    /\ sourceTags[1] # sourceTags[2]
    /\ \E p \in DOMAIN TAG_PROFILES :
          /\ p \in MatchedProfiles(<<sourceTags[1]>>)
          /\ p \in MatchedProfiles(<<sourceTags[2]>>)
    /\ \E f \in FeatureNames :
          /\ Cardinality(Declaring(MatchedProfiles(sourceTags), f)) = 2
          /\ features[f] = MeanOver(MatchedProfiles(sourceTags), f)

\* Every tag some vibe holds as core, broad, boost or anti evidence.
EvidenceTags ==
    UNION {NORMALIZED_SIGNALS[k].core \cup NORMALIZED_SIGNALS[k].broad
               \cup NORMALIZED_SIGNALS[k].boost \cup NORMALIZED_SIGNALS[k].anti :
           k \in DOMAIN NORMALIZED_SIGNALS}

\* The list without its last tag.
Front(tags) == SubSeq(tags, 1, Len(tags) - 1)

\* The last tag of the list is in no vibe's evidence once normalized.
LastUnknownToVibes == normalizeTag(sourceTags[Len(sourceTags)]) \notin EvidenceTags

\* The last tag of the list, lower-cased, contains no profile pattern.
LastUnknownToProfiles == MatchedProfiles(<<sourceTags[Len(sourceTags)]>>) = {}

\* C26: unrecognized tags contribute zero evidence.  For a list L and a tag u
\* whose normalized form is in no vibe's core, broad, boost or anti set,
\* deriveVibeProfile(L + [u]) equals deriveVibeProfile(L): primary, secondaries,
\* descriptors and scores; for a tag u that contains no profile pattern,
\* estimateFeaturesFromTags(L + [u]) equals estimateFeaturesFromTags(L).
\* Neither call raises an error.
C26_UnrecognizedTagChangesNothing ==
    /\ pc = "done" => (features # None /\ vibeProfile # None)
    /\ (pc = "done" /\ Len(sourceTags) > 0) =>
          /\ LastUnknownToVibes => vibeProfile = deriveVibeProfile(Front(sourceTags))
          /\ LastUnknownToProfiles => features = estimateFeaturesFromTags(Front(sourceTags))

\* Both calls have returned on a tag that a vibe and a profile recognize,
\* followed by a non-empty tag that neither recognizes.
C26_Witness ==
    /\ pc = "done"
    /\ Len(sourceTags) = 2
    /\ sourceTags[2] # ""
    /\ LastUnknownToVibes
    /\ LastUnknownToProfiles
    /\ vibeProfile.primaryVibeGenre # "Unclassified (Vibe TBD)"
    /\ features # StatedDefaults
    /\ vibeProfile = deriveVibeProfile(<<sourceTags[1]>>)
    /\ features = estimateFeaturesFromTags(<<sourceTags[1]>>)
(***************************************************************************)
(* Properties of the descriptors of a vibe profile.                        *)
(***************************************************************************)

\* Stated weight of zero-based position i, in hundredths: max(0.5, 1 - 0.08 i).
StatedWeightAt(i) == IF 100 - 8 * i < 50 THEN 50 ELSE 100 - 8 * i

\* The places (matched vibe, zero-based position) that list the descriptor.
Listings(matched, desc) ==
    UNION {{<<s, i - 1>> :
               i \in {j \in DOMAIN SignalOf(NORMALIZED_SIGNALS, s.vibe).descriptors :
                         SignalOf(NORMALIZED_SIGNALS, s.vibe).descriptors[j] = desc}} :
           s \in matched}

RECURSIVE SumListings(_)
SumListings(listings) ==
    IF listings = {} THEN 0
    ELSE LET l == CHOOSE m \in listings : TRUE
         IN  l[1].score * StatedWeightAt(l[2]) + SumListings(listings \ {l})

\* The stated total of a descriptor, in two-hundredths.
StatedTotal(matched, desc) == SumListings(Listings(matched, desc))

\* The descriptors some matched vibe lists.
ListedBy(matched) ==
    UNION {SeqToSet(SignalOf(NORMALIZED_SIGNALS, s.vibe).descriptors) : s \in matched}

\* Position of a descriptor in the accumulated totals.
AccumulatedAt(totals, desc) == CHOOSE k \in DOMAIN totals : totals[k].desc = desc

\* C24: the descriptor totals of deriveVibeProfile are, per descriptor, the sum
\* over the matched vibes listing it at position i of vibeScore times
\* max(0.5, 1 - 0.08 i); descriptors are emitted in non-increasing order of total,
\* equal totals in the order they were first accumulated, so the first emitted
\* descriptor has the maximum total.
C24_DescriptorTotalsAndOrder ==
    pc = "done" =>
        LET matched == Positive(Standings)
            totals == vibeProfile.debug.descScores
            emitted == vibeProfile.descriptors
            total == [d \in ListedBy(matched) |-> StatedTotal(matched, d)]
        IN  /\ {totals[k].desc : k \in DOMAIN totals} = ListedBy(matched)
            /\ Distinct(ArrayOf([k \in DOMAIN totals |-> totals[k].desc]))
            /\ \A k \in DOMAIN totals : totals[k].score = total[totals[k].desc]
            /\ matched # {} =>
                  /\ SeqToSet(emitted) \subseteq ListedBy(matched)
                  /\ \A a, b \in DOMAIN emitted : a < b =>
                        \/ total[emitted[a]] > total[emitted[b]]
                        \/ /\ total[emitted[a]] = total[emitted[b]]
                           /\ AccumulatedAt(totals, emitted[a]) < AccumulatedAt(totals, emitted[b])
                  /\ \A d \in ListedBy(matched) : total[d] <= total[emitted[1]]

\* A profile of two matched vibes that list a common descriptor, with two
\* emitted descriptors of equal total.
C24_Witness ==
    /\ pc = "done"
    /\ Cardinality(Positive(Standings)) >= 2
    /\ \E d \in ListedBy(Positive(Standings)) :
          Cardinality(Listings(Positive(Standings), d)) >= 2
    /\ \E a, b \in DOMAIN vibeProfile.descriptors :
          /\ a < b
          /\ StatedTotal(Positive(Standings), vibeProfile.descriptors[a])
                = StatedTotal(Positive(Standings), vibeProfile.descriptors[b])

\* C27: the fallback triple is emitted exactly when the primary vibe is the
\* Unclassified sentinel; whenever a vibe is matched the descriptors are not
\* empty and each of them is in the descriptor list of some matched vibe.
C27_FallbackIffUnclassified ==
    pc = "done" =>
        LET matched == Positive(Standings)
            emitted == vibeProfile.descriptors
        IN  /\ emitted = <<"brain-scratch", "repeatable", "late-night">>
                  <=> vibeProfile.primaryVibeGenre = "Unclassified (Vibe TBD)"
            /\ matched # {} =>
                  /\ Len(emitted) > 0
                  /\ SeqToSet(emitted) \subseteq ListedBy(matched)

\* The profile of two tags that vibes list as boost or anti evidence only: no
\* vibe is matched and the fallback triple is emitted.
C27_Witness ==
    /\ pc = "done"
    /\ Len(sourceTags) = 2
    /\ \E s \in Standings : s.boost > 0 \/ s.anti > 0
    /\ Positive(Standings) = {}
    /\ vibeProfile.primaryVibeGenre = "Unclassified (Vibe TBD)"
    /\ vibeProfile.descriptors = <<"brain-scratch", "repeatable", "late-night">>
(***************************************************************************)
(* Properties of the candidates collected for ranking and of the path      *)
(* taken to the recommendations.                                           *)
(***************************************************************************)

\* The fallback on similar artists is running or has run.
OnFallback == Len(similarArtists) > 0

\* The candidates hold no track id twice and no track with the seed's name.
FallbackCandidatesClean ==
    OnFallback =>
        /\ \A i, j \in DOMAIN candidateTracks :
              candidateTracks[i].id = candidateTracks[j].id => i = j
        /\ \A i \in DOMAIN candidateTracks :
              toLowerCase(candidateTracks[i].name) # toLowerCase(seedTrackName)

\* Track info is fetched for the first 20 similar tracks and no other.
InfoForFirstTwenty == rankPc = "info" => cursor <= 21

\* C29: the candidate tracks collected for ranking never exceed 20:
\* fetchAndRerankRecommendations fetches info for at most the first 20 similar
\* tracks, and fetchFallbackRecommendations stops collecting once it has
\* enough, so that for any similar-artist and top-track responses its
\* candidate list holds at most 20 tracks, no track id twice, and no track
\* whose name equals the seed track name whatever the case.
C29_AtMostTwentyCandidates ==
    /\ Len(candidateTracks) <= 20
    /\ InfoForFirstTwenty
    /\ FallbackCandidatesClean

\* The similar-tracks lookup answers with an empty list: Last.fm lists no
\* track, or fails with error code 6.
AnsweredEmpty ==
    \/ ~lastfm.similarFails /\ lastfm.similar = <<>>
    \/ lastfm.similarFails /\ lastfm.similarCode = 6

\* The similar-tracks lookup fails with another error.
AnsweredOtherError == lastfm.similarFails /\ lastfm.similarCode # 6

\* The first at most 10 tracks Last.fm listed, in its order, with the fixed reason.
FirstTenAsListed ==
    LET n == IF Len(lastfm.similar) < 10 THEN Len(lastfm.similar) ELSE 10
    IN  /\ Len(recommendations) = n
        /\ \A i \in 1..n :
              /\ recommendations[i].name = lastfm.similar[i].name
              /\ recommendations[i].artists = <<lastfm.similar[i].artist>>
              /\ recommendations[i].reason
                    = "Similar artist and style based on listener patterns."

\* C30: the fallback on similar artists is taken exactly when the
\* similar-tracks lookup returns an empty list; an error with code 6 counts as
\* an empty list, any other error of the lookup aborts the analysis.  When the
\* list is not empty and every info fetch fails, the result is the first at
\* most 10 similar tracks in the order of the service, each with the reason
\* 'Similar artist and style based on listener patterns.', and the fallback is
\* not consulted.  On every path the result has at most 10 entries.
C30_PathSelection ==
    /\ [][/\ rankPc = "similar" =>
                /\ rankPc' = "artists" <=> AnsweredEmpty
                /\ rankPc' = "threw" <=> AnsweredOtherError
          /\ rankPc' = "artists" => rankPc = "similar"
          /\ rankPc' \in {"topTracks", "artistTracks"} =>
                rankPc \in {"artists", "topTracks", "artistTracks"}]_vars
    /\ [](rankPc \in {"artists", "topTracks", "artistTracks"} => AnsweredEmpty)
    /\ []((rankPc = "done" /\ Len(similarTracks) > 0 /\ Len(candidateTracks) = 0) =>
              /\ FirstTenAsListed
              /\ similarArtists = <<>>
              /\ seenTrackIds = {})
    /\ [](rankPc = "done" => Len(recommendations) <= 10)

\* Twelve similar tracks were listed and every info fetch failed: the first ten
\* are returned as listed.
C30_Witness ==
    /\ rankPc = "done"
    /\ Len(similarTracks) = 12
    /\ candidateTracks = <<>>
    /\ Len(recommendations) = 10
    /\ recommendations[10].name = lastfm.similar[10].name
    /\ similarArtists = <<>>
====
